---- MODULE Spec2Model ----
(***************************************************************************)
(* Filter lifecycle controller of terraform-provider-auditlogfilters:      *)
(* the definition validator, JSON normalisation, and the filter resource's *)
(* Create and Update handlers running against the audit_log_filter store.  *)
(***************************************************************************)
EXTENDS Integers, Sequences, FiniteSets, TLC

VARIABLES
    store,  \* the remote tables mysql.audit_log_filter and mysql.audit_log_user
    ctl,    \* per controller instance: the handler invocation in progress
    vdoc,   \* validator harness: the definition text under construction
    vres,   \* validator harness: the verdict returned for vdoc
    prov    \* the provider's Configure call: its inputs, position and outcome

vars == <<store, ctl, vdoc, vres, prov>>

(***************************************************************************)
(* Bounds of the model.                                                    *)
(***************************************************************************)
MaxWraps == 3       \* nesting steps used to build a definition text
MaxFilterId == 4    \* auto-increment ids the store hands out in one run

(***************************************************************************)
(* JSON texts and parsed values.                                           *)
(*                                                                         *)
(* A text is a syntax tree plus a flag telling whether it carries          *)
(* insignificant whitespace.  An object node keeps its members in the      *)
(* order written, duplicates included; an array node keeps its elements    *)
(* as members with the empty key.  A parsed value (Go's any) is a scalar,  *)
(* a []any or a map[string]any; the map is a function on its key set.      *)
(***************************************************************************)
TScalar(s) == [tag |-> "scalar", m |-> << >>, s |-> s]
TObj(members) == [tag |-> "obj", m |-> members, s |-> ""]
TArr(elems) == [tag |-> "arr", m |-> [i \in 1..Len(elems) |-> <<"", elems[i]>>], s |-> ""]
TBad == [tag |-> "bad", m |-> << >>, s |-> ""]

Text(ws, tree) == [ws |-> ws, tree |-> tree]

EmptyMap == [k \in {} |-> 0]
VScalar(s) == [tag |-> "scalar", o |-> EmptyMap, a |-> << >>, s |-> s]
VObj(o) == [tag |-> "obj", o |-> o, a |-> << >>, s |-> ""]
VArr(a) == [tag |-> "arr", o |-> EmptyMap, a |-> a, s |-> ""]

\* The keys of the model in the byte order encoding/json sorts map keys by.
SortedKeys == <<"and", "field", "filter", "not", "or", "x">>

RECURSIVE WellFormed(_)
WellFormed(node) ==
    /\ node.tag # "bad"
    /\ \A i \in 1..Len(node.m) : WellFormed(node.m[i][2])

\* A scalar token is a number or a string as written; a number becomes a
\* float64, which Marshal writes in its shortest form: 1.0 comes back as 1.
DecodeScalar(s) == IF s = "1.0" THEN "1" ELSE s

\* json.Unmarshal into an any: a later duplicate of a key overwrites the earlier.
RECURSIVE Unmarshal(_)
Unmarshal(node) ==
    CASE node.tag = "obj" ->
            LET keys == {node.m[i][1] : i \in 1..Len(node.m)}
                last(k) == CHOOSE i \in 1..Len(node.m) :
                              /\ node.m[i][1] = k
                              /\ \A j \in (i+1)..Len(node.m) : node.m[j][1] # k
            IN  VObj([k \in keys |-> Unmarshal(node.m[last(k)][2])])
      [] node.tag = "arr" ->
            VArr([i \in 1..Len(node.m) |-> Unmarshal(node.m[i][2])])
      [] OTHER -> VScalar(DecodeScalar(node.s))

\* Marshal leaving out the members whose value is an empty object or array
IsEmptyValue(value) ==
    \/ value.tag = "obj" /\ DOMAIN value.o = {}
    \/ value.tag = "arr" /\ Len(value.a) = 0

RECURSIVE MarshalOmitEmpty(_)
MarshalOmitEmpty(value) ==
    CASE value.tag = "obj" ->
            LET ks == SelectSeq(SortedKeys, LAMBDA k : k \in DOMAIN value.o
                                                       /\ ~IsEmptyValue(value.o[k]))
            IN  TObj([i \in 1..Len(ks) |-> <<ks[i], MarshalOmitEmpty(value.o[ks[i]])>>])
      [] value.tag = "arr" ->
            TArr([i \in 1..Len(value.a) |-> MarshalOmitEmpty(value.a[i])])
      [] OTHER -> TScalar(value.s)

\* json.Marshal of an any: compact, map keys in sorted order.
RECURSIVE Marshal(_)
Marshal(value) ==
    CASE value.tag = "obj" ->
            LET ks == SelectSeq(SortedKeys, LAMBDA k : k \in DOMAIN value.o)
            IN  TObj([i \in 1..Len(ks) |-> <<ks[i], Marshal(value.o[ks[i]])>>])
      [] value.tag = "arr" ->
            TArr([i \in 1..Len(value.a) |-> Marshal(value.a[i])])
      [] OTHER -> TScalar(value.s)

\* normalizeJSON that only strips the whitespace, as json.Compact does
normalizeJSONCompactOnly(input) ==
    IF ~WellFormed(input.tree)
    THEN [ok |-> FALSE, text |-> input]
    ELSE [ok |-> TRUE, text |-> Text(FALSE, input.tree)]

\* normalizeJSON: [ok, text]; ok is FALSE when Unmarshal returns an error.
normalizeJSON(input) ==
    IF ~WellFormed(input.tree)
    THEN [ok |-> FALSE, text |-> input]
    ELSE [ok |-> TRUE, text |-> Text(FALSE, Marshal(Unmarshal(input.tree)))]

\* The same document spelled differently: whitespace added or removed, the
\* members of every object written in the opposite order.
RECURSIVE RespellTree(_)
RespellTree(node) ==
    CASE node.tag = "obj" ->
            TObj([i \in 1..Len(node.m) |->
                    <<node.m[Len(node.m) + 1 - i][1],
                      RespellTree(node.m[Len(node.m) + 1 - i][2])>>])
      [] node.tag = "arr" ->
            TArr([i \in 1..Len(node.m) |-> RespellTree(node.m[i][2])])
      [] OTHER -> node

Respell(text) == Text(~text.ws, RespellTree(text.tree))

(***************************************************************************)
(* The definition validator.  An error is [code, path, present]; the path  *)
(* is the sequence of tokens the code appends to "$".  The validator       *)
(* returns the first error it meets, and a Go map is ranged over in an     *)
(* unspecified order, so each operator yields the SET of errors a run can  *)
(* return: the empty set is nil.                                           *)
(***************************************************************************)
OperatorKeys == <<"and", "or", "not", "field">>
IndexTokens == <<"[0]", "[1]", "[2]", "[3]">>

VErr(code, path, present) == [code |-> code, path |-> path, present |-> present]

RECURSIVE validateConditionTree(_, _)
RECURSIVE validateConditionObject(_, _)
RECURSIVE validateArrayFrom(_, _, _)
RECURSIVE validateExpressionsFrom(_, _, _, _)

\* the elements of an array with their indices counted from one
RECURSIVE validateArrayFromOneBased(_, _, _)
validateArrayFromOneBased(a, path, i) ==
    IF i > Len(a) THEN {}
    ELSE LET e == validateConditionTree(a[i], Append(path, IndexTokens[i + 1]))
         IN  IF e # {} THEN e ELSE validateArrayFromOneBased(a, path, i + 1)

\* lines 70-76: the elements in index order, stopping at the first error
validateArrayFrom(a, path, i) ==
    IF i > Len(a) THEN {}
    ELSE LET e == validateConditionTree(a[i], Append(path, IndexTokens[i]))
         IN  IF e # {} THEN e ELSE validateArrayFrom(a, path, i + 1)

\* the expressions of an and/or without the check that each is an object
RECURSIVE validateExpressionsFromAnyElement(_, _, _, _)
validateExpressionsFromAnyElement(expressions, path, operator, i) ==
    IF i > Len(expressions) THEN {}
    ELSE LET here == Append(Append(path, operator), IndexTokens[i])
             e == validateConditionTree(expressions[i], here)
         IN  IF e # {} THEN e
             ELSE validateExpressionsFromAnyElement(expressions, path, operator, i + 1)

\* lines 109-116: the expressions of an and/or in index order
validateExpressionsFrom(expressions, path, operator, i) ==
    IF i > Len(expressions) THEN {}
    ELSE LET here == Append(Append(path, operator), IndexTokens[i])
         IN  IF expressions[i].tag # "obj"
             THEN {VErr("element_not_object", here, << >>)}
             ELSE LET e == validateConditionTree(expressions[i], here)
                  IN  IF e # {} THEN e
                      ELSE validateExpressionsFrom(expressions, path, operator, i + 1)

validateConditionTree(value, path) ==
    CASE value.tag = "obj" -> validateConditionObject(value.o, path)
      [] value.tag = "arr" -> validateArrayFrom(value.a, path, 1)
      [] OTHER -> {}

validateConditionObject(object, path) ==
    LET present == SelectSeq(OperatorKeys, LAMBDA key : key \in DOMAIN object)
    IN  IF Len(present) > 0
        THEN IF Len(present) # 1
             THEN {VErr("multiple_operators", path, present)}
             ELSE LET operator == present[1]
                      operatorValue == object[operator]
                  IN  CASE operator \in {"and", "or"} ->
                              IF operatorValue.tag # "arr"
                              THEN {VErr("not_array", Append(path, operator), << >>)}
                              ELSE IF Len(operatorValue.a) = 0
                              THEN {VErr("empty_array", Append(path, operator), << >>)}
                              ELSE validateExpressionsFrom(operatorValue.a, path, operator, 1)
                        [] operator = "not" ->
                              IF operatorValue.tag # "obj"
                              THEN {VErr("not_not_object", Append(path, "not"), << >>)}
                              ELSE validateConditionTree(operatorValue, Append(path, "not"))
                        [] OTHER ->
                              IF operatorValue.tag # "obj"
                              THEN {VErr("field_not_object", Append(path, "field"), << >>)}
                              ELSE {}
        ELSE UNION {validateConditionTree(object[key], Append(path, key)) :
                        key \in DOMAIN object}

\* validateAuditLogFilterDefinition walking the condition tree before it
\* looks for the filter root
validateAuditLogFilterDefinitionTreeFirst(definition) ==
    IF ~WellFormed(definition.tree)
    THEN {VErr("malformed_json", << >>, << >>)}
    ELSE LET parsed == Unmarshal(definition.tree)
         IN  IF parsed.tag # "obj"
             THEN {VErr("not_an_object", << >>, << >>)}
             ELSE IF validateConditionTree(parsed, <<"$">>) # {}
             THEN validateConditionTree(parsed, <<"$">>)
             ELSE IF "filter" \notin DOMAIN parsed.o
             THEN {VErr("missing_filter", << >>, << >>)}
             ELSE IF parsed.o["filter"].tag # "obj"
             THEN {VErr("filter_not_object", << >>, << >>)}
             ELSE {}

validateAuditLogFilterDefinition(definition) ==
    IF ~WellFormed(definition.tree)
    THEN {VErr("malformed_json", << >>, << >>)}
    ELSE LET parsed == Unmarshal(definition.tree)
         IN  IF parsed.tag # "obj"
             THEN {VErr("not_an_object", << >>, << >>)}
             ELSE IF "filter" \notin DOMAIN parsed.o
             THEN {VErr("missing_filter", << >>, << >>)}
             ELSE IF parsed.o["filter"].tag # "obj"
             THEN {VErr("filter_not_object", << >>, << >>)}
             ELSE validateConditionTree(parsed, <<"$">>)

(***************************************************************************)
(* The store: the tables behind the audit_log_filter functions.  Strings   *)
(* of account names are token sequences, so that a user specification is   *)
(* built and parsed rather than carried around.                            *)
(***************************************************************************)
FilterNames == {"f1", "f2"}
Percent == <<"%">>
UserKeys == {<<Percent, Percent>>, <<<<"u1">>, <<"h1">>>>, <<<<"u2">>, Percent>>}

NoText == Text(FALSE, TScalar(""))
NoUser == << >>

\* Stored definitions a run starts from: one written with whitespace and
\* unsorted keys by another tool, one already compact.
StoredLoose ==
    Text(TRUE, TObj(<< <<"filter", TObj(<< <<"x", TScalar("old")>>,
                                            <<"field", TObj(<< >>)>> >>)>> >>))
StoredCompact ==
    Text(FALSE, TObj(<< <<"filter", TObj(<< <<"x", TScalar("other")>> >>)>> >>))

\* Definitions a plan can carry.
PlanLoose ==
    Text(TRUE, TObj(<< <<"filter", TObj(<< <<"x", TScalar("new")>>,
                                            <<"not", TObj(<< >>)>> >>)>> >>))
PlanCompact ==
    Text(FALSE, TObj(<< <<"filter", TObj(<< <<"x", TScalar("new")>> >>)>> >>))
PlanMalformed == Text(FALSE, TBad)
PlanNoFilter == Text(FALSE, TObj(<< <<"x", TScalar("new")>> >>))
PlanTwoOperators ==
    Text(FALSE, TObj(<< <<"filter", TObj(<< <<"field", TObj(<< >>)>>,
                                             <<"or", TArr(<<TObj(<< >>)>>)>> >>)>> >>))
PlanDefinitions ==
    {PlanLoose, PlanCompact, PlanMalformed, PlanNoFilter, PlanTwoOperators}

\* Results of one store call: the driver's error, or the function's string.
Ok == [kind |-> "ok", msg |-> "OK"]
TransportError == [kind |-> "err", msg |-> "connection lost"]
NoRows == [kind |-> "err", msg |-> "sql: no rows in result set"]
ErrorResult == [kind |-> "res", msg |-> "ERROR: rejected"]
FunctionResults == {Ok, TransportError, ErrorResult}

FilterExists(s, name) == name \in DOMAIN s.filters

\* audit_log_filter_set_filter(name, text) returning OK
SetFilter(s, name, text) ==
    [s EXCEPT !.filters = (name :> [id |-> s.nextId, text |-> text]) @@ s.filters,
              !.nextId = s.nextId + 1]

\* audit_log_filter_remove_filter(name) returning OK: the assignments of the
\* filter go with it
RemoveFilter(s, name) ==
    [s EXCEPT !.filters = [n \in DOMAIN s.filters \ {name} |-> s.filters[n]],
              !.users = [k \in {u \in DOMAIN s.users : s.users[u] # name} |-> s.users[k]]]

\* the account a user specification names: "%" is the default account,
\* anything else is split at its first "@"
StoreAccount(userSpec) ==
    IF userSpec = Percent THEN <<Percent, Percent>>
    ELSE LET at == CHOOSE i \in 1..Len(userSpec) :
                      userSpec[i] = "@" /\ \A j \in 1..(i-1) : userSpec[j] # "@"
         IN  <<SubSeq(userSpec, 1, at - 1), SubSeq(userSpec, at + 1, Len(userSpec))>>

\* audit_log_filter_set_user(userSpec, name) returning OK
SetUser(s, userSpec, name) ==
    [s EXCEPT !.users = (StoreAccount(userSpec) :> name) @@ s.users]

\* the results audit_log_filter_set_user can give: OK needs the filter
SetUserResults(s, name) ==
    IF FilterExists(s, name) THEN FunctionResults ELSE FunctionResults \ {Ok}

\* the results of a SELECT of one row of mysql.audit_log_filter
SelectFilterResults(s, name) ==
    IF FilterExists(s, name) THEN {Ok, TransportError} ELSE {NoRows, TransportError}

AssignedTo(s, name) == {k \in DOMAIN s.users : s.users[k] = name}

\* the row orders a SELECT without ORDER BY can return
RowOrders(S) ==
    {q \in [1..Cardinality(S) -> S] : \A a, b \in 1..Cardinality(S) : a # b => q[a] # q[b]}

StoreOk(s) == \A k \in DOMAIN s.users : FilterExists(s, s.users[k])

InitialFilter(n) ==
    IF n = "f1" THEN [id |-> 1, text |-> StoredLoose] ELSE [id |-> 2, text |-> StoredCompact]

InitialStores ==
    {s \in {[filters |-> [n \in D |-> InitialFilter(n)], users |-> u, nextId |-> 3] :
                D \in SUBSET FilterNames,
                u \in UNION {[K -> FilterNames] : K \in SUBSET UserKeys}} :
        StoreOk(s)}

(***************************************************************************)
(* Controller instances.  One handler invocation runs at a time in an      *)
(* instance; each store call is one step.                                  *)
(***************************************************************************)
Controllers == {1, 2}
Single == {1}

Diag(sev, summary, cause, note, subject) ==
    [sev |-> sev, summary |-> summary, cause |-> cause, note |-> note, subject |-> subject]

Call(fn, name, text, user, result) ==
    [fn |-> fn, name |-> name, text |-> text, user |-> user, result |-> result]

NoState == [id |-> "", name |-> "", definition |-> NoText, filterID |-> 0]
NoAssignment == [id |-> << >>, username |-> << >>, userhost |-> << >>, filterName |-> ""]

Idle ==
    [pc |-> "idle", op |-> "none", name |-> "", definition |-> NoText,
     newDefinition |-> NoText, oldDefinition |-> NoText, assignedUsers |-> << >>,
     next |-> 0, createFailure |-> Ok, diags |-> << >>, calls |-> << >>,
     username |-> << >>, userhost |-> << >>, assignment |-> NoAssignment,
     stateSet |-> FALSE, state |-> NoState, pre |-> [filters |-> EmptyMap, users |-> EmptyMap, nextId |-> 0],
     atRemove |-> [filters |-> EmptyMap, users |-> EmptyMap, nextId |-> 0],
     reqID |-> << >>, prior |-> NoAssignment]

HasError(c) == \E j \in 1..Len(c.diags) : c.diags[j].sev = "error"

\* resp.Diagnostics.AddError / AddWarning
AddError(c, summary, cause, note) ==
    [c EXCEPT !.diags = Append(@, Diag("error", summary, cause, note, NoUser))]
AddWarning(c, summary, cause, note, subject) ==
    [c EXCEPT !.diags = Append(@, Diag("warning", summary, cause, note, subject))]
Logged(c, fn, text, user, result) ==
    [c EXCEPT !.calls = Append(@, Call(fn, c.name, text, user, result))]
Returned(c) == [c EXCEPT !.pc = "done"]

(***************************************************************************)
(* AuditLogFilterResource.Update                                           *)
(***************************************************************************)
Started(op, name, definition) ==
    [Idle EXCEPT !.op = op, !.name = name, !.definition = definition, !.pre = store]

\* Checked with the validation left out: only normalizeJSON guards the store
CheckedWithoutValidation(c, pcNext, warn) ==
    LET norm == normalizeJSON(c.definition)
    IN  IF ~norm.ok
        THEN {Returned(AddError(c, "Invalid JSON Definition", "malformed_json", "normalize"))}
        ELSE LET d == [c EXCEPT !.newDefinition = norm.text, !.pc = pcNext]
             IN  {IF warn
                  THEN AddWarning(d, "Filter Update Requires Recreation", "", "", NoUser)
                  ELSE d}

\* Checked with the advisory warning of lines 266-272 left out
CheckedWithoutAdvisory(c, pcNext, warn) ==
    LET errs == validateAuditLogFilterDefinition(c.definition)
        norm == normalizeJSON(c.definition)
    IN  IF errs # {}
        THEN {Returned(AddError(c, "Invalid JSON Definition", e.code, "validation")) : e \in errs}
        ELSE IF ~norm.ok
        THEN {Returned(AddError(c, "Invalid JSON Definition", "malformed_json", "normalize"))}
        ELSE {[c EXCEPT !.newDefinition = norm.text, !.pc = pcNext]}

\* lines 246-272 (Update) and 124-142 (Create): validate, then normalise; Update
\* then adds its advisory warning
Checked(c, pcNext, warn) ==
    LET errs == validateAuditLogFilterDefinition(c.definition)
        norm == normalizeJSON(c.definition)
    IN  IF errs # {}
        THEN {Returned(AddError(c, "Invalid JSON Definition", e.code, "validation")) : e \in errs}
        ELSE IF ~norm.ok
        THEN {Returned(AddError(c, "Invalid JSON Definition", "malformed_json", "normalize"))}
        ELSE LET d == [c EXCEPT !.newDefinition = norm.text, !.pc = pcNext]
             IN  {IF warn
                  THEN AddWarning(d, "Filter Update Requires Recreation", "", "", NoUser)
                  ELSE d}

\* lines 236-275
UpdateBegin(i, name, definition) ==
    /\ ctl[i].pc = "idle"
    /\ store.nextId <= MaxFilterId
    /\ \E c \in Checked(Started("Update", name, definition), "u_old", TRUE) :
          ctl' = [ctl EXCEPT ![i] = c]
    /\ UNCHANGED <<store, vdoc, vres, prov>>

\* the read of the stored text reports its failure and the flow goes on
UpdateReadOldGoingOn(i) ==
    /\ ctl[i].pc = "u_old"
    /\ \E r \in SelectFilterResults(store, ctl[i].name) :
          LET c == Logged(ctl[i], "select_filter", NoText, NoUser, r)
          IN  ctl' = [ctl EXCEPT ![i] =
                 IF r.kind = "ok"
                 THEN [c EXCEPT !.oldDefinition = store.filters[c.name].text, !.pc = "u_list"]
                 ELSE [AddError(c, "Database Error", r.msg, "read_definition")
                          EXCEPT !.pc = "u_list"]]
    /\ UNCHANGED <<store, vdoc, vres, prov>>

\* lines 277-286: SELECT filter FROM mysql.audit_log_filter WHERE name = ?
UpdateReadOld(i) ==
    /\ ctl[i].pc = "u_old"
    /\ \E r \in SelectFilterResults(store, ctl[i].name) :
          LET c == Logged(ctl[i], "select_filter", NoText, NoUser, r)
          IN  ctl' = [ctl EXCEPT ![i] =
                 IF r.kind = "ok"
                 THEN [c EXCEPT !.oldDefinition = store.filters[c.name].text, !.pc = "u_list"]
                 ELSE Returned(AddError(c, "Database Error", r.msg, "read_definition"))]
    /\ UNCHANGED <<store, vdoc, vres, prov>>

\* the list query without its WHERE clause: every account of the table
UpdateListAssignmentsOfAll(i) ==
    /\ ctl[i].pc = "u_list"
    /\ LET rows == DOMAIN store.users
           c(r) == Logged(ctl[i], "select_users", NoText, NoUser, r)
       IN  \/ \E q \in RowOrders(rows) :
                 ctl' = [ctl EXCEPT ![i] = [c(Ok) EXCEPT !.assignedUsers = q, !.pc = "u_remove"]]
           \/ ctl' = [ctl EXCEPT ![i] =
                 Returned(AddError(c(TransportError), "Database Error",
                                   TransportError.msg, "check_assignments"))]
           \/ /\ rows # {}
              /\ ctl' = [ctl EXCEPT ![i] =
                    Returned(AddError(c(TransportError), "Database Error",
                                      TransportError.msg, "scan_assignments"))]
           \/ ctl' = [ctl EXCEPT ![i] =
                 Returned(AddError(c(TransportError), "Database Error",
                                   TransportError.msg, "iterate_assignments"))]
    /\ UNCHANGED <<store, vdoc, vres, prov>>

\* lines 288-318: SELECT username, userhost FROM mysql.audit_log_user WHERE
\* filtername = ?, with the deferred rows.Close of lines 300-304
UpdateListAssignments(i) ==
    /\ ctl[i].pc = "u_list"
    /\ LET rows == AssignedTo(store, ctl[i].name)
           c(r) == Logged(ctl[i], "select_users", NoText, NoUser, r)
       IN  \/ \E q \in RowOrders(rows) :
                 ctl' = [ctl EXCEPT ![i] = [c(Ok) EXCEPT !.assignedUsers = q, !.pc = "u_remove"]]
           \/ ctl' = [ctl EXCEPT ![i] =
                 Returned(AddError(c(TransportError), "Database Error",
                                   TransportError.msg, "check_assignments"))]
           \/ /\ rows # {}
              /\ \E closeFails \in BOOLEAN :
                    LET d == AddError(c(TransportError), "Database Error",
                                      TransportError.msg, "scan_assignments")
                    IN  ctl' = [ctl EXCEPT ![i] =
                           Returned(IF closeFails
                                    THEN AddError(d, "Database Error",
                                                  TransportError.msg, "close_rows")
                                    ELSE d)]
           \/ ctl' = [ctl EXCEPT ![i] =
                 Returned(AddError(c(TransportError), "Database Error",
                                   TransportError.msg, "iterate_assignments"))]
    /\ UNCHANGED <<store, vdoc, vres, prov>>

\* lines 320-337: SELECT audit_log_filter_remove_filter(?)
UpdateRemove(i) ==
    /\ ctl[i].pc = "u_remove"
    /\ \E r \in FunctionResults :
          LET c == Logged(ctl[i], "remove_filter", NoText, NoUser, r)
          IN  /\ ctl' = [ctl EXCEPT ![i] =
                    CASE r.kind = "err" ->
                            Returned(AddError(c, "Failed to Remove Existing Filter", r.msg, ""))
                      [] r.kind = "res" ->
                            Returned(AddError(c, "Filter Removal Failed", r.msg, ""))
                      [] OTHER -> [c EXCEPT !.atRemove = store, !.pc = "u_create"]]
              /\ store' = IF r.kind = "ok" THEN RemoveFilter(store, c.name) ELSE store
    /\ UNCHANGED <<vdoc, vres, prov>>

\* the plan's text as written, not normalised
CreateTextAsWritten(c) == c.definition

\* line 275 and 341: the text the recreate call carries
CreateText(c) == c.newDefinition

\* only the driver's error counts as a failure
CreateFailedOnErrorOnly(r) == r.kind = "err"

\* lines 342 and 365: err != nil, or createResult != "OK"
CreateFailed(r) == r.kind # "ok"

\* lines 339-341 and 388-394: SELECT audit_log_filter_set_filter(?, ?) with the
\* new definition
UpdateCreate(i) ==
    /\ ctl[i].pc = "u_create"
    /\ \E r \in FunctionResults :
          LET c == Logged(ctl[i], "set_filter", CreateText(ctl[i]), NoUser, r)
          IN  /\ ctl' = [ctl EXCEPT ![i] =
                    IF CreateFailed(r)
                    THEN [c EXCEPT !.createFailure = r, !.pc = "u_rollback"]
                    ELSE IF Len(c.assignedUsers) > 0
                    THEN [AddWarning(c, "Restoring User Assignments", "", "", NoUser)
                            EXCEPT !.next = 1, !.pc = "u_restore"]
                    ELSE [c EXCEPT !.pc = "u_id"]]
              /\ store' = IF r.kind = "ok"
                          THEN SetFilter(store, c.name, CreateText(c))
                          ELSE store
    /\ UNCHANGED <<vdoc, vres, prov>>

\* the old definition normalised before it is sent back
RollbackTextNormalized(c) == normalizeJSON(c.oldDefinition).text

\* the rollback sends back the text the remove call took away
RollbackTextRemoved(c) ==
    IF FilterExists(c.atRemove, c.name)
    THEN c.atRemove.filters[c.name].text
    ELSE c.oldDefinition

\* the text the rollback call of lines 344-348 and 367-371 carries
RollbackText(c) == c.oldDefinition

\* the underlying message the recreate error of lines 350-361, 373-384 quotes
RecreateCause(c, rollbackResult) == c.createFailure.msg

\* only rbErr is looked at
RollbackNoteOnErrorOnly(r) ==
    IF r.kind = "err" THEN "rollback_failed" ELSE "original_restored"

\* lines 349 and 372: rbErr != nil || rollbackResult != "OK" chooses the sentence
\* the error ends with
RollbackNote(r) ==
    IF r.kind # "ok" THEN "rollback_failed" ELSE "original_restored"

\* lines 342-386: the rollback call and the error that reports its outcome
UpdateRollback(i) ==
    /\ ctl[i].pc = "u_rollback"
    /\ \E r \in FunctionResults :
          LET c == Logged(ctl[i], "set_filter", RollbackText(ctl[i]), NoUser, r)
              summary == IF c.createFailure.kind = "err"
                         THEN "Failed to Recreate Filter"
                         ELSE "Filter Recreation Failed"
              note == RollbackNote(r)
          IN  /\ ctl' = [ctl EXCEPT ![i] =
                    Returned(AddError(c, summary, RecreateCause(c, r), note))]
              /\ store' = IF r.kind = "ok"
                          THEN SetFilter(store, c.name, RollbackText(c))
                          ELSE store
    /\ UNCHANGED <<vdoc, vres, prov>>

\* every entry is restored as the default account
UserSpecOfDefaultOnly(user) == Percent

\* lines 397-402
UserSpecOf(user) ==
    IF user[1] = Percent THEN Percent ELSE user[1] \o <<"@">> \o user[2]

\* a warning for the driver's error only
RestoreWarningOnErrorOnly(c, r, userSpec) ==
    IF r.kind = "err"
    THEN AddWarning(c, "Failed to Restore User Assignment", r.msg, "manual_reassign", userSpec)
    ELSE c

\* lines 406-421: the warning a failed set-assignment call adds
RestoreWarning(c, r, userSpec) ==
    CASE r.kind = "err" ->
            AddWarning(c, "Failed to Restore User Assignment",
                       r.msg, "manual_reassign", userSpec)
      [] r.kind = "res" ->
            AddWarning(c, "User Assignment Restoration Failed",
                       r.msg, "manual_reassign", userSpec)
      [] OTHER -> c

\* a failed entry is tried again before the loop moves on
RestoreAdvanceRetry(w, r) ==
    IF r.kind # "ok"
    THEN w
    ELSE IF w.next = Len(w.assignedUsers)
    THEN [w EXCEPT !.pc = "u_id"]
    ELSE [w EXCEPT !.next = w.next + 1]

\* the loop left at the first failed entry
RestoreAdvanceStopOnFailure(w, r) ==
    IF w.next = Len(w.assignedUsers) \/ r.kind # "ok"
    THEN [w EXCEPT !.pc = "u_id"]
    ELSE [w EXCEPT !.next = w.next + 1]

\* lines 396, 412, 422: the loop goes on to the next entry whatever r was
RestoreAdvance(w, r) ==
    IF w.next = Len(w.assignedUsers)
    THEN [w EXCEPT !.pc = "u_id"]
    ELSE [w EXCEPT !.next = w.next + 1]

\* lines 396-422: one iteration of the restoration loop
UpdateRestore(i) ==
    /\ ctl[i].pc = "u_restore"
    /\ LET userSpec == UserSpecOf(ctl[i].assignedUsers[ctl[i].next])
       IN  \E r \in SetUserResults(store, ctl[i].name) :
              LET c == Logged(ctl[i], "set_user", NoText, userSpec, r)
                  w == RestoreWarning(c, r, userSpec)
              IN  /\ ctl' = [ctl EXCEPT ![i] = RestoreAdvance(w, r)]
                  /\ store' = IF r.kind = "ok" THEN SetUser(store, userSpec, c.name) ELSE store
    /\ UNCHANGED <<vdoc, vres, prov>>

\* ReadBack reporting the definition as the plan wrote it
ReadBackAsPlanned(c, r) ==
    IF r.kind = "ok"
    THEN Returned([c EXCEPT !.stateSet = TRUE,
                            !.state = [id |-> c.name, name |-> c.name,
                                       definition |-> c.definition,
                                       filterID |-> store.filters[c.name].id]])
    ELSE Returned(AddError(c, "Database Error", r.msg, "retrieve_filter_id"))

\* lines 425-439 (Update) and 180-194 (Create): read the filter_id back, set
\* the state
ReadBack(c, r) ==
    IF r.kind = "ok"
    THEN Returned([c EXCEPT !.stateSet = TRUE,
                            !.state = [id |-> c.name, name |-> c.name,
                                       definition |-> c.newDefinition,
                                       filterID |-> store.filters[c.name].id]])
    ELSE Returned(AddError(c, "Database Error", r.msg, "retrieve_filter_id"))

UpdateReadId(i) ==
    /\ ctl[i].pc = "u_id"
    /\ \E r \in SelectFilterResults(store, ctl[i].name) :
          ctl' = [ctl EXCEPT ![i] =
                    ReadBack(Logged(ctl[i], "select_filter_id", NoText, NoUser, r), r)]
    /\ UNCHANGED <<store, vdoc, vres, prov>>

(***************************************************************************)
(* AuditLogFilterResource.Create                                           *)
(***************************************************************************)
\* lines 114-142
CreateBegin(i, name, definition) ==
    /\ ctl[i].pc = "idle"
    /\ store.nextId <= MaxFilterId
    /\ \E c \in Checked(Started("Create", name, definition), "c_exists", FALSE) :
          ctl' = [ctl EXCEPT ![i] = c]
    /\ UNCHANGED <<store, vdoc, vres, prov>>

\* line 146: SELECT COUNT(*) FROM mysql.audit_log_filter WHERE name = ?
ExistingCount(s, name) == Cardinality({n \in DOMAIN s.filters : n = name})

\* the name counts as taken only when the store holds it more than once
NameTakenOnlyIfDuplicated(existingCount) == existingCount > 1

\* line 152: if existingCount > 0
NameTaken(existingCount) == existingCount > 0

\* lines 144-159
CreateCheckExists(i) ==
    /\ ctl[i].pc = "c_exists"
    /\ \E r \in {Ok, TransportError} :
          LET c == Logged(ctl[i], "count_filter", NoText, NoUser, r)
          IN  ctl' = [ctl EXCEPT ![i] =
                 IF r.kind # "ok"
                 THEN Returned(AddError(c, "Database Error", r.msg, "check_existing"))
                 ELSE IF NameTaken(ExistingCount(store, c.name))
                 THEN Returned(AddError(c, "Filter Already Exists", "", ""))
                 ELSE [c EXCEPT !.pc = "c_create"]]
    /\ UNCHANGED <<store, vdoc, vres, prov>>

\* the name is looked up again before the create call is sent
CreateSetFilterRechecking(i) ==
    /\ ctl[i].pc = "c_create"
    /\ IF NameTaken(ExistingCount(store, ctl[i].name))
       THEN /\ ctl' = [ctl EXCEPT ![i] =
                          Returned(AddError(ctl[i], "Filter Already Exists", "", ""))]
            /\ store' = store
       ELSE \E r \in FunctionResults :
              LET c == Logged(ctl[i], "set_filter", ctl[i].newDefinition, NoUser, r)
              IN  /\ ctl' = [ctl EXCEPT ![i] =
                        CASE r.kind = "err" ->
                                Returned(AddError(c, "Failed to Create Filter", r.msg, ""))
                          [] r.kind = "res" ->
                                Returned(AddError(c, "Filter Creation Failed", r.msg, ""))
                          [] OTHER -> [c EXCEPT !.pc = "c_id"]]
                  /\ store' = IF r.kind = "ok"
                              THEN SetFilter(store, c.name, c.newDefinition)
                              ELSE store
    /\ UNCHANGED <<vdoc, vres, prov>>

\* lines 161-178: SELECT audit_log_filter_set_filter(?, ?)
CreateSetFilter(i) ==
    /\ ctl[i].pc = "c_create"
    /\ \E r \in FunctionResults :
          LET c == Logged(ctl[i], "set_filter", ctl[i].newDefinition, NoUser, r)
          IN  /\ ctl' = [ctl EXCEPT ![i] =
                    CASE r.kind = "err" ->
                            Returned(AddError(c, "Failed to Create Filter", r.msg, ""))
                      [] r.kind = "res" ->
                            Returned(AddError(c, "Filter Creation Failed", r.msg, ""))
                      [] OTHER -> [c EXCEPT !.pc = "c_id"]]
              /\ store' = IF r.kind = "ok"
                          THEN SetFilter(store, c.name, c.newDefinition)
                          ELSE store
    /\ UNCHANGED <<vdoc, vres, prov>>

\* lines 180-194
CreateReadId(i) ==
    /\ ctl[i].pc = "c_id"
    /\ \E r \in SelectFilterResults(store, ctl[i].name) :
          ctl' = [ctl EXCEPT ![i] =
                    ReadBack(Logged(ctl[i], "select_filter_id", NoText, NoUser, r), r)]
    /\ UNCHANGED <<store, vdoc, vres, prov>>

(***************************************************************************)
(* AuditLogFilterResource.Delete                                           *)
(***************************************************************************)
\* lines 442-450: the name comes from the prior state
DeleteBegin(i, name) ==
    /\ ctl[i].pc = "idle"
    /\ ctl' = [ctl EXCEPT ![i] = [Started("Delete", name, NoText) EXCEPT !.pc = "d_remove"]]
    /\ UNCHANGED <<store, vdoc, vres, prov>>

\* the function's result string is not looked at
DeleteFailedOnErrorOnly(r) == r.kind = "err"

\* lines 455 and 463: err != nil, or result != "OK"
DeleteFailed(r) == r.kind # "ok"

\* lines 452-469: SELECT audit_log_filter_remove_filter(?)
DeleteRemove(i) ==
    /\ ctl[i].pc = "d_remove"
    /\ \E r \in FunctionResults :
          LET c == Logged(ctl[i], "remove_filter", NoText, NoUser, r)
          IN  /\ ctl' = [ctl EXCEPT ![i] =
                    IF ~DeleteFailed(r) THEN Returned(c)
                    ELSE IF r.kind = "err"
                    THEN Returned(AddError(c, "Failed to Delete Filter", r.msg, ""))
                    ELSE Returned(AddError(c, "Filter Deletion Failed", r.msg, ""))]
              /\ store' = IF r.kind = "ok" THEN RemoveFilter(store, c.name) ELSE store
    /\ UNCHANGED <<vdoc, vres, prov>>

(***************************************************************************)
(* AuditLogFilterResource.Read and ImportState                             *)
(***************************************************************************)
\* States a Read can find reported before it: written by an earlier apply,
\* possibly stale.
PriorStates(name) ==
    {[id |-> name, name |-> name, definition |-> d, filterID |-> f] :
        d \in {StoredCompact, normalizeJSON(PlanLoose).text}, f \in {1, MaxFilterId + 1}}

\* the stored text reported as it is stored
ReportedDefinitionAsStored(stored) == [ok |-> TRUE, text |-> stored]

\* lines 221 and 493: normalizeJSON(definition)
ReportedDefinition(stored) == normalizeJSON(stored)

\* the prior state is kept when the row is gone
ReadMissingKeepsState(c) == Returned(c)

\* lines 212-216: sql.ErrNoRows, resp.State.RemoveResource
ReadMissing(c) == Returned([c EXCEPT !.stateSet = FALSE, !.state = NoState])

\* lines 197-205: resp.State starts as the prior state
ReadBegin(i, name) ==
    /\ ctl[i].pc = "idle"
    /\ \E prior \in PriorStates(name) :
          ctl' = [ctl EXCEPT ![i] = [Started("Read", name, NoText) EXCEPT
                                        !.pc = "r_select", !.stateSet = TRUE, !.state = prior]]
    /\ UNCHANGED <<store, vdoc, vres, prov>>

\* lines 207-233: SELECT filter_id, filter FROM mysql.audit_log_filter WHERE name = ?
ReadSelect(i) ==
    /\ ctl[i].pc = "r_select"
    /\ \E r \in SelectFilterResults(store, ctl[i].name) :
          LET c == Logged(ctl[i], "select_filter", NoText, NoUser, r)
          IN  ctl' = [ctl EXCEPT ![i] =
                 IF r = NoRows THEN ReadMissing(c)
                 ELSE IF r.kind # "ok"
                 THEN Returned(AddError(c, "Database Error", r.msg, "read_filter"))
                 ELSE LET norm == ReportedDefinition(store.filters[c.name].text)
                      IN  IF ~norm.ok
                          THEN Returned(AddError(c, "Database Error", "malformed_json",
                                                 "normalize_stored"))
                          ELSE Returned([c EXCEPT !.stateSet = TRUE,
                                           !.state = [id |-> c.name, name |-> c.name,
                                                      definition |-> norm.text,
                                                      filterID |-> store.filters[c.name].id]])]
    /\ UNCHANGED <<store, vdoc, vres, prov>>

\* lines 472-474: the name is the import id
ImportBegin(i, name) ==
    /\ ctl[i].pc = "idle"
    /\ ctl' = [ctl EXCEPT ![i] = [Started("Import", name, NoText) EXCEPT !.pc = "i_select"]]
    /\ UNCHANGED <<store, vdoc, vres, prov>>

\* lines 476-506
ImportSelect(i) ==
    /\ ctl[i].pc = "i_select"
    /\ \E r \in SelectFilterResults(store, ctl[i].name) :
          LET c == Logged(ctl[i], "select_filter", NoText, NoUser, r)
          IN  ctl' = [ctl EXCEPT ![i] =
                 IF r = NoRows
                 THEN Returned(AddError(c, "Filter Not Found", "", ""))
                 ELSE IF r.kind # "ok"
                 THEN Returned(AddError(c, "Database Error", r.msg, "query_filter"))
                 ELSE LET norm == ReportedDefinition(store.filters[c.name].text)
                      IN  IF ~norm.ok
                          THEN Returned(AddError(c, "Database Error", "malformed_json",
                                                 "normalize_stored"))
                          ELSE Returned([c EXCEPT !.stateSet = TRUE,
                                           !.state = [id |-> c.name, name |-> c.name,
                                                      definition |-> norm.text,
                                                      filterID |-> store.filters[c.name].id]])]
    /\ UNCHANGED <<store, vdoc, vres, prov>>

(***************************************************************************)
(* AuditLogUserAssignmentResource: Create, Update, Delete                  *)
(***************************************************************************)
\* audit_log_filter_remove_user(userSpec) returning OK
RemoveUser(s, userSpec) ==
    [s EXCEPT !.users = [k \in DOMAIN s.users \ {StoreAccount(userSpec)} |-> s.users[k]]]

\* SELECT COUNT(*) FROM mysql.audit_log_user WHERE username = ? AND userhost = ?
ExistingAssignments(s, username, userhost) ==
    Cardinality({k \in DOMAIN s.users : k = <<username, userhost>>})

\* lines 104-112
buildUserSpec(username, userhost) ==
    IF username = Percent THEN Percent
    ELSE username \o <<"@">> \o (IF userhost = << >> THEN Percent ELSE userhost)

\* lines 136-140, 256-260, 318-321: an empty userhost is "%"
DefaultHost(userhost) == IF userhost = << >> THEN Percent ELSE userhost

\* the (username, userhost) pairs a plan can carry: the default account with
\* and without a host, a user with a host, a user without
PlanUsers ==
    {<<Percent, << >>>>, <<Percent, <<"h1">>>>, <<<<"u1">>, <<"h1">>>>, <<<<"u2">>, << >>>>}

AssignmentStarted(op, user, filterName) ==
    [Started(op, filterName, NoText) EXCEPT !.username = user[1],
                                            !.userhost = DefaultHost(user[2])]

\* the filter is never taken to be missing
FilterMissingNever(filterCount) == FALSE

\* lines 153 and 269: if filterCount == 0
FilterMissing(filterCount) == filterCount = 0

\* lines 146-161 and 262-277: SELECT COUNT(*) FROM mysql.audit_log_filter WHERE name = ?
AssignmentCheckFilter(c0, r, pcNext) ==
    LET c == Logged(c0, "count_filter", NoText, NoUser, r)
    IN  IF r.kind # "ok"
        THEN Returned(AddError(c, "Database Error", r.msg, "check_filter"))
        ELSE IF FilterMissing(ExistingCount(store, c.name))
        THEN Returned(AddError(c, "Filter Not Found", "", ""))
        ELSE [c EXCEPT !.pc = pcNext]

\* lines 201-204 and 298-301: the id is username@userhost, resp.State.Set
AssignmentSet(c) ==
    Returned([c EXCEPT !.stateSet = TRUE,
                       !.assignment = [id |-> c.username \o <<"@">> \o c.userhost,
                                       username |-> c.username, userhost |-> c.userhost,
                                       filterName |-> c.name]])

\* lines 126-144
AssignCreateBegin(i, user, filterName) ==
    /\ ctl[i].pc = "idle"
    /\ ctl' = [ctl EXCEPT ![i] =
                 [AssignmentStarted("AssignCreate", user, filterName) EXCEPT !.pc = "ac_filter"]]
    /\ UNCHANGED <<store, vdoc, vres, prov>>

AssignCreateCheckFilter(i) ==
    /\ ctl[i].pc = "ac_filter"
    /\ \E r \in {Ok, TransportError} :
          ctl' = [ctl EXCEPT ![i] = AssignmentCheckFilter(ctl[i], r, "ac_exists")]
    /\ UNCHANGED <<store, vdoc, vres, prov>>

\* the assignment is never taken to exist
AssignmentTakenNever(existingCount) == FALSE

\* line 171: if existingCount > 0
AssignmentTaken(existingCount) == existingCount > 0

\* lines 163-177
AssignCreateCheckExisting(i) ==
    /\ ctl[i].pc = "ac_exists"
    /\ \E r \in {Ok, TransportError} :
          LET c == Logged(ctl[i], "count_user", NoText,
                          <<ctl[i].username, ctl[i].userhost>>, r)
          IN  ctl' = [ctl EXCEPT ![i] =
                 IF r.kind # "ok"
                 THEN Returned(AddError(c, "Database Error", r.msg, "check_assignment"))
                 ELSE IF AssignmentTaken(ExistingAssignments(store, c.username, c.userhost))
                 THEN Returned(AddError(c, "Assignment Already Exists", "", ""))
                 ELSE [c EXCEPT !.pc = "ac_set"]]
    /\ UNCHANGED <<store, vdoc, vres, prov>>

\* lines 179-204 (errTitle, resTitle of Create) and 279-301 (of Update):
\* SELECT audit_log_filter_set_user(?, ?)
AssignmentSetUser(i, errTitle, resTitle) ==
    LET userSpec == buildUserSpec(ctl[i].username, ctl[i].userhost)
    IN  \E r \in SetUserResults(store, ctl[i].name) :
           LET c == Logged(ctl[i], "set_user", NoText, userSpec, r)
           IN  /\ ctl' = [ctl EXCEPT ![i] =
                     CASE r.kind = "err" -> Returned(AddError(c, errTitle, r.msg, ""))
                       [] r.kind = "res" -> Returned(AddError(c, resTitle, r.msg, ""))
                       [] OTHER -> AssignmentSet(c)]
               /\ store' = IF r.kind = "ok" THEN SetUser(store, userSpec, c.name) ELSE store

AssignCreateSetUser(i) ==
    /\ ctl[i].pc = "ac_set"
    /\ AssignmentSetUser(i, "Failed to Create User Assignment",
                            "User Assignment Creation Failed")
    /\ UNCHANGED <<vdoc, vres, prov>>

\* lines 244-260
AssignUpdateBegin(i, user, filterName) ==
    /\ ctl[i].pc = "idle"
    /\ ctl' = [ctl EXCEPT ![i] =
                 [AssignmentStarted("AssignUpdate", user, filterName) EXCEPT !.pc = "au_filter"]]
    /\ UNCHANGED <<store, vdoc, vres, prov>>

AssignUpdateCheckFilter(i) ==
    /\ ctl[i].pc = "au_filter"
    /\ \E r \in {Ok, TransportError} :
          ctl' = [ctl EXCEPT ![i] = AssignmentCheckFilter(ctl[i], r, "au_set")]
    /\ UNCHANGED <<store, vdoc, vres, prov>>

AssignUpdateSetUser(i) ==
    /\ ctl[i].pc = "au_set"
    /\ AssignmentSetUser(i, "Failed to Update User Assignment",
                            "User Assignment Update Failed")
    /\ UNCHANGED <<vdoc, vres, prov>>

\* lines 304-321: username and userhost come from the prior state
AssignDeleteBegin(i, user) ==
    /\ ctl[i].pc = "idle"
    /\ ctl' = [ctl EXCEPT ![i] =
                 [AssignmentStarted("AssignDelete", user, "") EXCEPT !.pc = "ad_remove"]]
    /\ UNCHANGED <<store, vdoc, vres, prov>>

\* lines 323-341: SELECT audit_log_filter_remove_user(?)
AssignDeleteRemoveUser(i) ==
    /\ ctl[i].pc = "ad_remove"
    /\ LET userSpec == buildUserSpec(ctl[i].username, ctl[i].userhost)
       IN  \E r \in FunctionResults :
              LET c == Logged(ctl[i], "remove_user", NoText, userSpec, r)
              IN  /\ ctl' = [ctl EXCEPT ![i] =
                        CASE r.kind = "err" ->
                                Returned(AddError(c, "Failed to Delete User Assignment", r.msg, ""))
                          [] r.kind = "res" ->
                                Returned(AddError(c, "User Assignment Deletion Failed", r.msg, ""))
                          [] OTHER -> Returned(c)]
                  /\ store' = IF r.kind = "ok" THEN RemoveUser(store, userSpec) ELSE store
    /\ UNCHANGED <<vdoc, vres, prov>>

(***************************************************************************)
(* AuditLogUserAssignmentResource: Read, ImportState                       *)
(***************************************************************************)
\* the results of a SELECT of one row of mysql.audit_log_user
SelectUserResults(s, key) ==
    IF key \in DOMAIN s.users THEN {Ok, TransportError} ELSE {NoRows, TransportError}

\* the operations that leave an assignment in the Terraform state
AssignmentOps == {"AssignCreate", "AssignUpdate", "AssignRead", "AssignImport"}

\* lines 206-220: Read starts from the state the last operation set
AssignReadBegin(i) ==
    /\ ctl[i].pc = "done"
    /\ ctl[i].op \in AssignmentOps
    /\ ctl[i].stateSet
    /\ LET a == ctl[i].assignment
       IN  ctl' = [ctl EXCEPT ![i] =
                     [AssignmentStarted("AssignRead", <<a.username, a.userhost>>, a.filterName)
                        EXCEPT !.pc = "ar_select", !.stateSet = TRUE,
                               !.assignment = a, !.prior = a]]
    /\ UNCHANGED <<store, vdoc, vres, prov>>

\* lines 226-230: resp.State.RemoveResource
AssignReadMissing(c) == Returned([c EXCEPT !.stateSet = FALSE, !.assignment = NoAssignment])

\* line 238: data.ID = username@userhost
ReadID(c) == c.username \o <<"@">> \o c.userhost

\* lines 222-241: SELECT filtername FROM mysql.audit_log_user WHERE
\* username = ? AND userhost = ?
AssignReadSelect(i) ==
    /\ ctl[i].pc = "ar_select"
    /\ LET key == <<ctl[i].username, ctl[i].userhost>>
       IN  \E r \in SelectUserResults(store, key) :
              LET c == Logged(ctl[i], "select_user", NoText, key, r)
              IN  ctl' = [ctl EXCEPT ![i] =
                     IF r = NoRows
                     THEN AssignReadMissing(c)
                     ELSE IF r.kind # "ok"
                     THEN Returned(AddError(c, "Database Error", r.msg, "read_assignment"))
                     ELSE Returned([c EXCEPT !.assignment =
                                      [id |-> ReadID(c),
                                       username |-> c.username, userhost |-> c.userhost,
                                       filterName |-> store.users[key]]])]
    /\ UNCHANGED <<store, vdoc, vres, prov>>

\* the position of the first "@" of a user specification, 0 when it has none
FirstAt(userSpec) ==
    IF \E i \in 1..Len(userSpec) : userSpec[i] = "@"
    THEN CHOOSE i \in 1..Len(userSpec) :
            userSpec[i] = "@" /\ \A j \in 1..(i-1) : userSpec[j] # "@"
    ELSE 0

\* lines 115-124: "%" gives ("%", ""), strings.SplitN(userSpec, "@", 2)
parseUserSpec(userSpec) ==
    IF userSpec = Percent
    THEN <<Percent, << >>>>
    ELSE IF FirstAt(userSpec) = 0
    THEN <<userSpec, Percent>>
    ELSE <<SubSeq(userSpec, 1, FirstAt(userSpec) - 1),
           SubSeq(userSpec, FirstAt(userSpec) + 1, Len(userSpec))>>

\* the ids an import can be asked for: the default account, a bare username,
\* and username@userhost
ImportIDs ==
    {Percent, <<"u2">>, <<"u2", "@", "%">>, <<"u1", "@", "h1">>, <<"%", "@", "%">>}

\* lines 343-346
AssignImportBegin(i, id) ==
    /\ ctl[i].pc = "idle"
    /\ ctl' = [ctl EXCEPT ![i] =
                 [Started("AssignImport", "", NoText)
                    EXCEPT !.reqID = id,
                           !.username = parseUserSpec(id)[1],
                           !.userhost = parseUserSpec(id)[2],
                           !.pc = "ai_select"]]
    /\ UNCHANGED <<store, vdoc, vres, prov>>

\* line 365: ID is the import id as given
ImportID(c) == c.reqID

\* lines 348-376: SELECT filtername FROM mysql.audit_log_user WHERE
\* username = ? AND userhost = ?
AssignImportSelect(i) ==
    /\ ctl[i].pc = "ai_select"
    /\ LET key == <<ctl[i].username, ctl[i].userhost>>
       IN  \E r \in SelectUserResults(store, key) :
              LET c == Logged(ctl[i], "select_user", NoText, key, r)
              IN  ctl' = [ctl EXCEPT ![i] =
                     IF r = NoRows
                     THEN Returned(AddError(c, "User Assignment Not Found", "", ""))
                     ELSE IF r.kind # "ok"
                     THEN Returned(AddError(c, "Database Error", r.msg, "query_assignment"))
                     ELSE Returned([c EXCEPT !.stateSet = TRUE,
                                      !.name = store.users[key],
                                      !.assignment =
                                         [id |-> ImportID(c),
                                          username |-> c.username,
                                          userhost |-> DefaultHost(c.userhost),
                                          filterName |-> store.users[key]]])]
    /\ UNCHANGED <<store, vdoc, vres, prov>>

\* the handler has returned; the instance takes the next request
Return(i) ==
    /\ ctl[i].pc = "done"
    /\ ctl' = [ctl EXCEPT ![i] = Idle]
    /\ UNCHANGED <<store, vdoc, vres, prov>>

(***************************************************************************)
(* AuditLogFilterProvider.Configure: the session timeouts of               *)
(* parseAndValidateProviderConfig, then connectAndVerify.  Strings are      *)
(* sequences of characters.                                                *)
(***************************************************************************)
DigitChars == <<"0", "1", "2", "3", "4", "5", "6", "7", "8", "9">>
DigitValue(ch) == (CHOOSE k \in 1..Len(DigitChars) : DigitChars[k] = ch) - 1

RECURSIVE DecimalValue(_)
DecimalValue(ds) ==
    IF ds = << >> THEN 0
    ELSE DecimalValue(SubSeq(ds, 1, Len(ds) - 1)) * 10 + DigitValue(ds[Len(ds)])

\* strconv.ParseInt(value, 10, 64): an optional sign, then one digit or more
\* (the strings of the model are short: no value is out of the 64-bit range)
ParseInt(value) ==
    LET signed == value # << >> /\ value[1] \in {"+", "-"}
        ds == IF signed THEN Tail(value) ELSE value
    IN  IF ds = << >> \/ \E k \in 1..Len(ds) : \A d \in 1..Len(DigitChars) : DigitChars[d] # ds[k]
        THEN [ok |-> FALSE, value |-> 0]
        ELSE [ok |-> TRUE,
              value |-> IF signed /\ value[1] = "-" THEN 0 - DecimalValue(ds)
                        ELSE DecimalValue(ds)]

\* lines 456-465
parsePositiveInt64(value) ==
    LET parsed == ParseInt(value)
    IN  IF ~parsed.ok THEN [err |-> "syntax", value |-> 0]
        ELSE IF parsed.value < 1 THEN [err |-> "errNonPositiveInt64", value |-> 0]
        ELSE [err |-> "nil", value |-> parsed.value]

\* lines 467-472
validatePositiveInt64(value) == IF value < 1 THEN "errNonPositiveInt64" ELSE "nil"

\* types.Int64: null, or a value
Int64Null == [null |-> TRUE, value |-> 0]
Int64Value(v) == [null |-> FALSE, value |-> v]

PDiag(summary, field, label) == [summary |-> summary, field |-> field, label |-> label]

\* lines 314-351: the three calls of parseTimeoutConfig
TimeoutNames == <<"wait_timeout", "innodb_lock_wait_timeout", "lock_wait_timeout">>
TimeoutInput(name, envValue, attr) ==
    CASE name = "wait_timeout" ->
            [envValue |-> envValue, attr |-> attr, defaultValue |-> 10000,
             summary |-> "Invalid MySQL Wait Timeout",
             envFieldName |-> "MYSQL_WAIT_TIMEOUT", attrFieldName |-> name]
      [] name = "innodb_lock_wait_timeout" ->
            [envValue |-> envValue, attr |-> attr, defaultValue |-> 1,
             summary |-> "Invalid InnoDB Lock Wait Timeout",
             envFieldName |-> "MYSQL_INNODB_LOCK_WAIT_TIMEOUT", attrFieldName |-> name]
      [] OTHER ->
            [envValue |-> envValue, attr |-> attr, defaultValue |-> 60,
             summary |-> "Invalid Lock Wait Timeout",
             envFieldName |-> "MYSQL_LOCK_WAIT_TIMEOUT", attrFieldName |-> name]

TimeoutFailed(d) == [ok |-> FALSE, value |-> 0, diags |-> <<d>>]
TimeoutResolved(v) == [ok |-> TRUE, value |-> v, diags |-> << >>]

\* lines 491-526
parseTimeoutConfig(input) ==
    LET parsed == parsePositiveInt64(input.envValue)
        resolved == IF input.envValue # << >> THEN parsed.value ELSE input.defaultValue
    IN  IF input.envValue # << >> /\ parsed.err # "nil"
        THEN TimeoutFailed(PDiag(input.summary, input.envFieldName,
                                 IF parsed.err = "errNonPositiveInt64" THEN ""
                                 ELSE "Parse error"))
        ELSE IF ~input.attr.null
        THEN IF validatePositiveInt64(input.attr.value) # "nil"
             THEN TimeoutFailed(PDiag(input.summary, input.attrFieldName, ""))
             ELSE TimeoutResolved(input.attr.value)
        ELSE TimeoutResolved(resolved)

\* the values the environment and the configuration can give a timeout
EnvValues == {<< >>, <<"1", "5">>, <<"0">>, <<"-", "1">>, <<"a", "b", "c">>}
AttrValues == {Int64Null, Int64Value(5), Int64Value(0)}

NoProvider ==
    [pc |-> "off", env |-> << >>, attr |-> << >>, resolved |-> << >>,
     diags |-> << >>, stages |-> << >>, db |-> "none", ok |-> FALSE]

\* one call of parseTimeoutConfig and the return of lines 323-325, 336-338,
\* 349-351 when it failed
ParseTimeout(k, pcNext) ==
    LET r == parseTimeoutConfig(TimeoutInput(TimeoutNames[k], prov.env[k], prov.attr[k]))
    IN  prov' = [prov EXCEPT !.resolved = Append(@, r.value),
                             !.diags = @ \o r.diags,
                             !.pc = IF r.ok THEN pcNext ELSE "done"]

ParseWaitTimeout ==
    /\ prov.pc = "wait_timeout"
    /\ ParseTimeout(1, "innodb_lock_wait_timeout")
    /\ UNCHANGED <<store, ctl, vdoc, vres>>

ParseInnodbLockWaitTimeout ==
    /\ prov.pc = "innodb_lock_wait_timeout"
    /\ ParseTimeout(2, "lock_wait_timeout")
    /\ UNCHANGED <<store, ctl, vdoc, vres>>

ParseLockWaitTimeout ==
    /\ prov.pc = "lock_wait_timeout"
    /\ ParseTimeout(3, "open")
    /\ UNCHANGED <<store, ctl, vdoc, vres>>

Stage(name, err, count) == [stage |-> name, err |-> err, count |-> count]

\* lines 377-387: sqlOpenFunc
ConnectOpen ==
    /\ prov.pc = "open"
    /\ \E err \in BOOLEAN :
          LET q == [prov EXCEPT !.stages = Append(@, Stage("open", err, 0))]
          IN  prov' = IF err
                      THEN [q EXCEPT !.diags = Append(@, PDiag("Unable to Create MySQL Client",
                                                               "", "MySQL Client Error")),
                                     !.pc = "done"]
                      ELSE [q EXCEPT !.db = "open", !.pc = "ping"]
    /\ UNCHANGED <<store, ctl, vdoc, vres>>

\* lines 389-403: pingDBFunc
ConnectPing ==
    /\ prov.pc = "ping"
    /\ \E err \in BOOLEAN :
          LET q == [prov EXCEPT !.stages = Append(@, Stage("ping", err, 0))]
          IN  prov' = IF err
                      THEN [q EXCEPT !.db = "closed",
                                     !.diags = Append(@, PDiag("Unable to Connect to MySQL",
                                                               "", "MySQL Connection Error")),
                                     !.pc = "done"]
                      ELSE [q EXCEPT !.pc = "component"]
    /\ UNCHANGED <<store, ctl, vdoc, vres>>

\* only the query's error counts
ComponentMissingOnErrorOnly(err, componentExists) == err

\* line 406: err != nil || componentExists == 0
ComponentMissing(err, componentExists) == err \/ componentExists = 0

\* lines 405-417: queryComponentCountFunc
ConnectComponent ==
    /\ prov.pc = "component"
    /\ \E err \in BOOLEAN, componentExists \in {0, 1} :
          LET q == [prov EXCEPT !.stages = Append(@, Stage("component", err, componentExists)),
                                !.pc = "done"]
          IN  prov' = IF ComponentMissing(err, componentExists)
                      THEN [q EXCEPT !.db = "closed",
                                     !.diags = Append(@,
                                        PDiag("Audit Log Filter Component Not Available", "", ""))]
                      ELSE [q EXCEPT !.ok = TRUE]
    /\ UNCHANGED <<store, ctl, vdoc, vres>>

(***************************************************************************)
(* The controller's specification: one instance serving Create and Update  *)
(* requests one after the other.                                           *)
(***************************************************************************)
NoCanon == [ok |-> FALSE, text |-> NoText]
NoVerdict ==
    [phase |-> "off", wraps |-> 0, errors |-> {}, verdict |-> VErr("", << >>, << >>),
     canon |-> NoCanon, again |-> NoCanon, respelled |-> NoCanon, canonErrors |-> {}]

Init ==
    /\ store \in InitialStores
    /\ ctl = [i \in Controllers |-> Idle]
    /\ vdoc = NoText
    /\ vres = NoVerdict
    /\ prov = NoProvider

Next ==
    \E i \in Single :
        \/ \E name \in FilterNames, definition \in PlanDefinitions :
              UpdateBegin(i, name, definition)
        \/ UpdateReadOld(i)
        \/ UpdateListAssignments(i)
        \/ UpdateRemove(i)
        \/ UpdateCreate(i)
        \/ UpdateRollback(i)
        \/ UpdateRestore(i)
        \/ UpdateReadId(i)
        \/ \E name \in FilterNames, definition \in PlanDefinitions :
              CreateBegin(i, name, definition)
        \/ CreateCheckExists(i)
        \/ CreateSetFilter(i)
        \/ CreateReadId(i)
        \/ \E name \in FilterNames : DeleteBegin(i, name)
        \/ DeleteRemove(i)
        \/ \E name \in FilterNames : ReadBegin(i, name)
        \/ ReadSelect(i)
        \/ \E name \in FilterNames : ImportBegin(i, name)
        \/ ImportSelect(i)
        \/ Return(i)

Spec == Init /\ [][Next]_vars

(***************************************************************************)
(* Both resources under one controller: filter Create, Update and Delete   *)
(* and assignment Create, Update and Delete, one request after the other.  *)
(***************************************************************************)
AppliedDefinitions == {PlanCompact, PlanTwoOperators}

NextA ==
    \E i \in Single :
        \/ \E name \in FilterNames, definition \in AppliedDefinitions :
              UpdateBegin(i, name, definition)
        \/ UpdateReadOld(i)
        \/ UpdateListAssignments(i)
        \/ UpdateRemove(i)
        \/ UpdateCreate(i)
        \/ UpdateRollback(i)
        \/ UpdateRestore(i)
        \/ UpdateReadId(i)
        \/ \E name \in FilterNames, definition \in AppliedDefinitions :
              CreateBegin(i, name, definition)
        \/ CreateCheckExists(i)
        \/ CreateSetFilter(i)
        \/ CreateReadId(i)
        \/ \E name \in FilterNames : DeleteBegin(i, name)
        \/ DeleteRemove(i)
        \/ \E user \in PlanUsers, name \in FilterNames : AssignCreateBegin(i, user, name)
        \/ AssignCreateCheckFilter(i)
        \/ AssignCreateCheckExisting(i)
        \/ AssignCreateSetUser(i)
        \/ \E user \in PlanUsers, name \in FilterNames : AssignUpdateBegin(i, user, name)
        \/ AssignUpdateCheckFilter(i)
        \/ AssignUpdateSetUser(i)
        \/ \E user \in PlanUsers : AssignDeleteBegin(i, user)
        \/ AssignDeleteRemoveUser(i)
        \/ AssignReadBegin(i)
        \/ AssignReadSelect(i)
        \/ \E id \in ImportIDs : AssignImportBegin(i, id)
        \/ AssignImportSelect(i)
        \/ Return(i)

SpecA == Init /\ [][NextA]_vars

(***************************************************************************)
(* Two controller instances against one store, each serving one request    *)
(* on the same filter name: a filter Create, a filter Update or an         *)
(* assignment Create.  Their store calls interleave in every order.        *)
(***************************************************************************)
ContendedName == "f1"
ContendedDefinitions == {PlanCompact, PlanLoose}
ContendedUsers == {<<Percent, << >>>>, <<<<"u2">>, << >>>>}
ContendedStores ==
    {s \in InitialStores : /\ DOMAIN s.filters \subseteq {ContendedName}
                           /\ DOMAIN s.users \subseteq {<<<<"u1">>, <<"h1">>>>}}

InitC ==
    /\ store \in ContendedStores
    /\ ctl = [i \in Controllers |-> Idle]
    /\ vdoc = NoText
    /\ vres = NoVerdict
    /\ prov = NoProvider

NextC ==
    \E i \in Controllers :
        \/ \E definition \in ContendedDefinitions :
              UpdateBegin(i, ContendedName, definition)
        \/ UpdateReadOld(i)
        \/ UpdateListAssignments(i)
        \/ UpdateRemove(i)
        \/ UpdateCreate(i)
        \/ UpdateRollback(i)
        \/ UpdateRestore(i)
        \/ UpdateReadId(i)
        \/ \E definition \in ContendedDefinitions :
              CreateBegin(i, ContendedName, definition)
        \/ CreateCheckExists(i)
        \/ CreateSetFilter(i)
        \/ CreateReadId(i)
        \/ \E user \in ContendedUsers : AssignCreateBegin(i, user, ContendedName)
        \/ AssignCreateCheckFilter(i)
        \/ AssignCreateCheckExisting(i)
        \/ AssignCreateSetUser(i)

SpecC == InitC /\ [][NextC]_vars

(***************************************************************************)
(* The provider's specification: one Configure call, from the timeouts the *)
(* environment and the configuration give to the handle connectAndVerify   *)
(* returns.                                                                *)
(***************************************************************************)
InitP ==
    /\ store = [filters |-> EmptyMap, users |-> EmptyMap, nextId |-> 1]
    /\ ctl = [i \in Controllers |-> Idle]
    /\ vdoc = NoText
    /\ vres = NoVerdict
    /\ \E e \in [1..Len(TimeoutNames) -> EnvValues], a \in [1..Len(TimeoutNames) -> AttrValues] :
          prov = [NoProvider EXCEPT !.pc = "wait_timeout", !.env = e, !.attr = a]

NextP ==
    \/ ParseWaitTimeout
    \/ ParseInnodbLockWaitTimeout
    \/ ParseLockWaitTimeout
    \/ ConnectOpen
    \/ ConnectPing
    \/ ConnectComponent

SpecP == InitP /\ [][NextP]_vars

(***************************************************************************)
(* The validator's specification: a definition text is built from a leaf   *)
(* by nesting it, then validateAuditLogFilterDefinition is applied to it.  *)
(***************************************************************************)
ObjectKeys == {"and", "or", "not", "field", "filter", "x"}

TwoOperators == TObj(<< <<"field", TObj(<< >>)>>, <<"or", TArr(<<TObj(<< >>)>>)>> >>)
LeafTrees == {TScalar("s"), TScalar("1.0"), TObj(<< >>), TArr(<< >>), TBad, TwoOperators}

\* key pairs of a two-member object: the text under construction goes under
\* the first, an empty object under the second
PairWraps ==
    {<<"x", "field">>, <<"x", "not">>, <<"filter", "x">>, <<"not", "field">>, <<"and", "or">>}

OkVerdict == VErr("ok", << >>, << >>)

InitV ==
    /\ store = [filters |-> EmptyMap, users |-> EmptyMap, nextId |-> 1]
    /\ ctl = [i \in Controllers |-> Idle]
    /\ \E t \in LeafTrees : vdoc = Text(FALSE, t)
    /\ vres = [NoVerdict EXCEPT !.phase = "build", !.verdict = OkVerdict]
    /\ prov = NoProvider

CanWrap == vres.phase = "build" /\ vres.wraps < MaxWraps /\ vdoc.tree.tag # "bad"

VWrapKey(k) ==
    /\ CanWrap
    /\ vdoc' = Text(vdoc.ws, TObj(<< <<k, vdoc.tree>> >>))
    /\ vres' = [vres EXCEPT !.wraps = @ + 1]
    /\ UNCHANGED <<store, ctl, prov>>

VWrapPair(p) ==
    /\ CanWrap
    /\ vdoc' = Text(vdoc.ws, TObj(<< <<p[1], vdoc.tree>>, <<p[2], TObj(<< >>)>> >>))
    /\ vres' = [vres EXCEPT !.wraps = @ + 1]
    /\ UNCHANGED <<store, ctl, prov>>

\* an object in which the same key is written twice: the text under
\* construction first, an empty object after it
VWrapTwice ==
    /\ CanWrap
    /\ vdoc' = Text(vdoc.ws, TObj(<< <<"x", vdoc.tree>>, <<"x", TObj(<< >>)>> >>))
    /\ vres' = [vres EXCEPT !.wraps = @ + 1]
    /\ UNCHANGED <<store, ctl, prov>>

\* a two-member object without operator keys whose second member is an
\* object holding two operators
VWrapBeside ==
    /\ CanWrap
    /\ vdoc' = Text(vdoc.ws, TObj(<< <<"x", vdoc.tree>>, <<"filter", TwoOperators>> >>))
    /\ vres' = [vres EXCEPT !.wraps = @ + 1]
    /\ UNCHANGED <<store, ctl, prov>>

VWrapArray ==
    /\ CanWrap
    /\ vdoc' = Text(vdoc.ws, TArr(<<vdoc.tree>>))
    /\ vres' = [vres EXCEPT !.wraps = @ + 1]
    /\ UNCHANGED <<store, ctl, prov>>

\* one run of the validator on vdoc: errors is every error a run can return,
\* verdict the one this run returned
VValidate ==
    /\ vres.phase = "build"
    /\ LET errs == validateAuditLogFilterDefinition(vdoc)
       IN  \E e \in (IF errs = {} THEN {OkVerdict} ELSE errs) :
              vres' = [vres EXCEPT !.phase = "validated", !.errors = errs, !.verdict = e]
    /\ UNCHANGED <<store, ctl, vdoc, prov>>

\* normalizeJSON applied to vdoc (Create line 134, Update line 257), to its own
\* output (Read line 221 and ImportState line 493 on the text that was
\* stored) and to vdoc spelled differently; the validator applied to vdoc and
\* to the normalized text
VNormalize ==
    /\ vres.phase = "build"
    /\ LET canon == normalizeJSON(vdoc)
       IN  vres' = [vres EXCEPT !.phase = "normalized",
                                !.canon = canon,
                                !.again = normalizeJSON(canon.text),
                                !.respelled = normalizeJSON(Respell(vdoc)),
                                !.errors = validateAuditLogFilterDefinition(vdoc),
                                !.canonErrors = validateAuditLogFilterDefinition(canon.text)]
    /\ UNCHANGED <<store, ctl, vdoc, prov>>

NextV ==
    \/ \E k \in ObjectKeys : VWrapKey(k)
    \/ \E p \in PairWraps : VWrapPair(p)
    \/ VWrapBeside
    \/ VWrapArray
    \/ VValidate

SpecV == InitV /\ [][NextV]_vars

(***************************************************************************)
(* normalizeJSON's specification: a text is built the same way, duplicate  *)
(* keys included, then normalized.                                         *)
(***************************************************************************)
NextN ==
    \/ \E k \in ObjectKeys : VWrapKey(k)
    \/ \E p \in PairWraps : VWrapPair(p)
    \/ VWrapTwice
    \/ VWrapArray
    \/ VNormalize

SpecN == InitV /\ [][NextN]_vars

(***************************************************************************)
(* Properties.                                                             *)
(***************************************************************************)
Errors(c) == {c.diags[j] : j \in {k \in 1..Len(c.diags) : c.diags[k].sev = "error"}}
Warnings(c) == {c.diags[j] : j \in {k \in 1..Len(c.diags) : c.diags[k].sev = "warning"}}

UpdateDone(c) == c.op = "Update" /\ c.pc = "done"
ValidationFails(c) == validateAuditLogFilterDefinition(c.definition) # {}

\* the text of filter name in store s, NoText when there is none
TextOf(s, name) == IF FilterExists(s, name) THEN s.filters[name].text ELSE NoText

RollbackFailureFlagged(c) == \E d \in Errors(c) : d.note = "rollback_failed"

\* the calls of an Update come in the order select_filter, select_users,
\* remove_filter, set_filter (new text), then set_filter (old text) or set_user...
RecreateCalled(c) == c.op = "Update" /\ Len(c.calls) >= 4
RecreateFailedIn(c) == RecreateCalled(c) /\ c.calls[4].result.kind # "ok"
RecreateOkIn(c) == RecreateCalled(c) /\ c.calls[4].result.kind = "ok"
RollbackCalled(c) == RecreateFailedIn(c) /\ Len(c.calls) >= 5

\* C1: after a single-instance Update of an existing filter returns, the store
\* holds either the filter with the new text and every assignment of the
\* pre-update snapshot bound to it, or the filter with its pre-update text;
\* assignments bound to the filter before the Update are missing afterwards
\* only if the rollback failed, and then the failure is flagged.  (A flagged
\* rollback failure is let off the first half.)
C1_UpdateAtomic ==
    \A i \in Single :
        LET c == ctl[i]
            before == AssignedTo(c.pre, c.name)
            after == AssignedTo(store, c.name)
        IN  (UpdateDone(c) /\ FilterExists(c.pre, c.name)) =>
               \/ RollbackFailureFlagged(c)
               \/ /\ before \subseteq after
                  /\ \/ /\ FilterExists(store, c.name)
                        /\ ~ValidationFails(c)
                        /\ TextOf(store, c.name) = normalizeJSON(c.definition).text
                     \/ TextOf(store, c.name) = TextOf(c.pre, c.name)

\* C2: a definition whose root is an object with a filter object, and in which
\* some object at any depth and position holds two or more of and, or, not,
\* field, is rejected by validate.  (The claim also names the error,
\* MultipleLogicalOperators; a run that accepts such a definition refutes it
\* whatever error was due, so only the rejection is demanded here.)
RECURSIVE ObjectsIn(_)
ObjectsIn(value) ==
    CASE value.tag = "obj" ->
            {value.o} \cup UNION {ObjectsIn(value.o[k]) : k \in DOMAIN value.o}
      [] value.tag = "arr" ->
            UNION {ObjectsIn(value.a[j]) : j \in 1..Len(value.a)}
      [] OTHER -> {}

Ambiguous(o) == Cardinality({k \in DOMAIN o : k \in {"and", "or", "not", "field"}}) >= 2

HasFilterRoot(text) ==
    /\ WellFormed(text.tree)
    /\ Unmarshal(text.tree).tag = "obj"
    /\ "filter" \in DOMAIN Unmarshal(text.tree).o
    /\ Unmarshal(text.tree).o["filter"].tag = "obj"

C2_AmbiguousRejected ==
    (/\ vres.phase = "validated"
     /\ HasFilterRoot(vdoc)
     /\ \E o \in ObjectsIn(Unmarshal(vdoc.tree)) : Ambiguous(o))
        => vres.verdict.code # "ok"

\* C3: when the definition fails validation, Create and Update return the
\* validation error at once, with no store call issued, the store as it was
\* and no state set.
C3_RejectedBeforeAnyCall ==
    \A i \in Single :
        LET c == ctl[i]
        IN  (c.op \in {"Create", "Update"} /\ ValidationFails(c)) =>
               /\ c.pc = "done"
               /\ c.calls = << >>
               /\ store = c.pre
               /\ ~c.stateSet
               /\ Len(c.diags) = 1
               /\ c.diags[1].sev = "error"
               /\ c.diags[1].summary = "Invalid JSON Definition"
               /\ \E e \in validateAuditLogFilterDefinition(c.definition) :
                     c.diags[1].cause = e.code

C3_Witness ==
    /\ ctl[1].op = "Update"
    /\ ctl[1].pc = "done"
    /\ ctl[1].definition = PlanTwoOperators
    /\ FilterExists(store, ctl[1].name)

\* C4: when the recreate call with the new text fails, Update issues exactly
\* one more create call, carrying the text read from the store before the
\* remove; when that call returns OK the store's text for the filter is the
\* pre-update stored text, and the error returned quotes the recreate
\* failure's own message under the recreate summary.
C4_RollbackRestoresOldText ==
    \A i \in Single :
        LET c == ctl[i]
            old == TextOf(c.pre, c.name)
        IN  /\ (RecreateFailedIn(c) /\ c.pc # "done") =>
                   (c.pc = "u_rollback" /\ Len(c.calls) = 4 /\ c.oldDefinition = old)
            /\ (RecreateFailedIn(c) /\ c.pc = "done") =>
                   /\ Len(c.calls) = 5
                   /\ c.calls[5].fn = "set_filter"
                   /\ c.calls[5].name = c.name
                   /\ c.calls[5].text = old
                   /\ (c.calls[5].result.kind = "ok" =>
                          /\ FilterExists(store, c.name)
                          /\ TextOf(store, c.name) = old)
                   /\ \E d \in Errors(c) :
                         /\ d.cause = c.calls[4].result.msg
                         /\ d.summary = (IF c.calls[4].result.kind = "err"
                                         THEN "Failed to Recreate Filter"
                                         ELSE "Filter Recreation Failed")

C4_Witness ==
    /\ UpdateDone(ctl[1])
    /\ RollbackCalled(ctl[1])
    /\ ctl[1].calls[5].result.kind = "ok"
    /\ TextOf(store, ctl[1].name) = StoredLoose

\* C5: when the rollback call fails too, Update returns at once with a hard
\* error saying the rollback failed and manual restoration is needed: no
\* further store call, no state set.
C5_RollbackFailureIsHardError ==
    \A i \in Single :
        LET c == ctl[i]
        IN  (RollbackCalled(c) /\ c.calls[5].result.kind # "ok") =>
               /\ c.pc = "done"
               /\ Len(c.calls) = 5
               /\ ~c.stateSet
               /\ HasError(c)
               /\ RollbackFailureFlagged(c)
               /\ \A d \in Errors(c) : d.note # "original_restored"

C5_Witness ==
    /\ UpdateDone(ctl[1])
    /\ RollbackCalled(ctl[1])
    /\ ctl[1].calls[4].result.kind = "res"
    /\ ctl[1].calls[5].result.kind = "res"
    /\ ~FilterExists(store, ctl[1].name)

\* the set-assignment calls of an invocation, in the order issued
RestoreCalls(c) == SelectSeq(c.calls, LAMBDA x : x.fn = "set_user")

RestoreFailureTitles ==
    {"Failed to Restore User Assignment", "User Assignment Restoration Failed"}
RestoreFailureWarnings(c) == {d \in Warnings(c) : d.summary \in RestoreFailureTitles}

\* the restoration loop is over: the read-back is next, or Update returned
RestoreOver(c) == RecreateOkIn(c) /\ c.pc \in {"u_id", "done"}

\* C6: after a successful recreate the set-assignment primitive is issued
\* exactly once for every entry of the snapshot, in snapshot order and for the
\* filter's name, whether or not earlier entries failed; a failed entry adds a
\* warning naming it and never a hard error.
C6_EveryAssignmentAttempted ==
    \A i \in Single :
        LET c == ctl[i]
            rc == RestoreCalls(c)
        IN  /\ RecreateOkIn(c) =>
                   /\ Cardinality({c.assignedUsers[j] : j \in 1..Len(c.assignedUsers)})
                         = Len(c.assignedUsers)
                   /\ {c.assignedUsers[j] : j \in 1..Len(c.assignedUsers)}
                         = AssignedTo(c.pre, c.name)
                   /\ Len(rc) <= Len(c.assignedUsers)
                   /\ \A j \in 1..Len(rc) :
                         /\ rc[j].user = UserSpecOf(c.assignedUsers[j])
                         /\ rc[j].name = c.name
                         /\ c.calls[4 + j] = rc[j]
                         /\ rc[j].result.kind # "ok" =>
                               \E d \in Warnings(c) :
                                  d.subject = rc[j].user /\ d.cause = rc[j].result.msg
                   /\ c.pc = "u_restore" => (Len(rc) = c.next - 1 /\ ~HasError(c))
                   /\ c.pc = "u_id" => ~HasError(c)
                   /\ \A d \in Errors(c) : d.note = "retrieve_filter_id"
            /\ RestoreOver(c) => Len(rc) = Len(c.assignedUsers)

C6_Witness ==
    /\ UpdateDone(ctl[1])
    /\ RecreateOkIn(ctl[1])
    /\ Len(ctl[1].assignedUsers) = 3
    /\ Len(RestoreCalls(ctl[1])) = 3
    /\ RestoreCalls(ctl[1])[1].result.kind = "err"
    /\ RestoreCalls(ctl[1])[2].result.kind = "res"
    /\ RestoreCalls(ctl[1])[3].result.kind = "ok"
    /\ ctl[1].stateSet

\* C7: after an Update whose recreate succeeded, the bindings named in the
\* restore-failure warnings are exactly the snapshot entries whose
\* set-assignment call failed, and every other snapshot entry is bound to the
\* filter in the store when Update returns.
C7_WarningsNameExactlyTheFailures ==
    \A i \in Single :
        LET c == ctl[i]
            rc == RestoreCalls(c)
            failed == {j \in 1..Len(rc) : rc[j].result.kind # "ok"}
        IN  (RestoreOver(c) /\ Len(rc) = Len(c.assignedUsers)) =>
               /\ {d.subject : d \in RestoreFailureWarnings(c)}
                     = {UserSpecOf(c.assignedUsers[j]) : j \in failed}
               /\ Cardinality(RestoreFailureWarnings(c)) = Cardinality(failed)
               /\ \A j \in (1..Len(rc)) \ failed :
                     /\ c.assignedUsers[j] \in DOMAIN store.users
                     /\ store.users[c.assignedUsers[j]] = c.name
               /\ \A j \in failed : c.assignedUsers[j] \notin DOMAIN store.users

C7_Witness ==
    /\ UpdateDone(ctl[1])
    /\ RecreateOkIn(ctl[1])
    /\ Len(ctl[1].assignedUsers) = 3
    /\ Cardinality(RestoreFailureWarnings(ctl[1])) = 1
    /\ Cardinality(AssignedTo(store, ctl[1].name)) = 2
    /\ ~HasError(ctl[1])

Advisory(c) == \E d \in Warnings(c) : d.summary = "Filter Update Requires Recreation"

\* C8 as claimed: every Update that returned carries the advisory warning that
\* the store has no in-place update, whatever its outcome, rejection by
\* validation included.
C8_AdvisoryAlways ==
    \A i \in Single : UpdateDone(ctl[i]) => Advisory(ctl[i])

\* C8 as amended: every Update whose definition passed validation carries the
\* advisory warning from its first store call on and when it returns, whatever
\* its outcome; an Update rejected by validation returns without it.
C8_AdvisoryOncePastValidation ==
    \A i \in Single :
        ctl[i].op = "Update" => (Advisory(ctl[i]) <=> ~ValidationFails(ctl[i]))

C8_Witness ==
    /\ UpdateDone(ctl[1])
    /\ RollbackFailureFlagged(ctl[1])
    /\ Advisory(ctl[1])

AllCallsOk(c) == \A j \in 1..Len(c.calls) : c.calls[j].result.kind = "ok"

\* C9: an Update in which every store call succeeds preserves the assignments:
\* the accounts bound to the filter afterwards are those bound to it before,
\* the default account "%" included, and the stored text is the canonical form
\* of the new text.
C9_SuccessfulUpdatePreservesAssignments ==
    \A i \in Single :
        LET c == ctl[i]
        IN  (UpdateDone(c) /\ ~ValidationFails(c) /\ AllCallsOk(c)) =>
               /\ c.stateSet
               /\ ~HasError(c)
               /\ AssignedTo(store, c.name) = AssignedTo(c.pre, c.name)
               /\ FilterExists(store, c.name)
               /\ TextOf(store, c.name) = normalizeJSON(c.definition).text
               /\ \A n \in FilterNames \ {c.name} :
                     AssignedTo(store, n) = AssignedTo(c.pre, n)

C9_Witness ==
    /\ UpdateDone(ctl[1])
    /\ AllCallsOk(ctl[1])
    /\ ctl[1].definition = PlanLoose
    /\ AssignedTo(store, ctl[1].name) = UserKeys
    /\ TextOf(store, ctl[1].name) # ctl[1].definition

(***************************************************************************)
(* The terminal outcomes of an Update, read off what it returned.          *)
(***************************************************************************)
Rejected(c) ==
    c.calls = << >> /\ \E d \in Errors(c) : d.summary = "Invalid JSON Definition"
Aborted(c) ==
    \E d \in Errors(c) :
        d.summary \in {"Failed to Remove Existing Filter", "Filter Removal Failed"}
RolledBackOK(c) == \E d \in Errors(c) : d.note = "original_restored"
RolledBackFailed(c) == RollbackFailureFlagged(c)
CompletedClean(c) ==
    c.stateSet /\ ~HasError(c) /\ RestoreFailureWarnings(c) = {}
CompletedWithWarnings(c) ==
    c.stateSet /\ ~HasError(c) /\ RestoreFailureWarnings(c) # {}
\* the two exits the state machine of the specification leaves out
SnapshotFailed(c) ==
    \E d \in Errors(c) :
        d.note \in {"read_definition", "check_assignments",
                    "scan_assignments", "iterate_assignments"}
ReadBackFailed(c) == \E d \in Errors(c) : d.note = "retrieve_filter_id"

Count(flags) == Cardinality({j \in 1..Len(flags) : flags[j]})

StatedOutcomes(c) ==
    <<Rejected(c), Aborted(c), RolledBackOK(c), RolledBackFailed(c),
      CompletedClean(c), CompletedWithWarnings(c)>>

\* the order of the steps, read off the calls issued so far
StepsInOrder(c) ==
    /\ c.calls # << >> => ~ValidationFails(c)
    /\ \A j \in 1..Len(c.calls) :
          LET x == c.calls[j]
              okBefore(k) == c.calls[k].result.kind = "ok"
          IN  CASE x.fn = "select_filter" -> j = 1
                [] x.fn = "select_users" -> j = 2 /\ okBefore(1)
                [] x.fn = "remove_filter" -> j = 3 /\ okBefore(2)
                [] x.fn = "set_filter" ->
                      \/ j = 4 /\ okBefore(3) /\ x.text = c.newDefinition
                      \/ j = 5 /\ ~okBefore(4) /\ x.text = c.oldDefinition
                [] x.fn = "set_user" ->
                      /\ j > 4
                      /\ c.calls[4].fn = "set_filter"
                      /\ okBefore(4)
                      /\ \A k \in 5..(j-1) : c.calls[k].fn = "set_user"
                [] x.fn = "select_filter_id" ->
                      j = Len(c.calls) /\ j > 4 /\ okBefore(4)
                [] OTHER -> FALSE

\* C10 as claimed: every Update ends in exactly one of Rejected, Aborted,
\* RolledBackOK, RolledBackFailed, CompletedClean, CompletedWithWarnings, its
\* steps in the stated order.
C10_SixOutcomes ==
    \A i \in Single :
        /\ ctl[i].op = "Update" => StepsInOrder(ctl[i])
        /\ UpdateDone(ctl[i]) => Count(StatedOutcomes(ctl[i])) = 1

\* C10 as amended: every Update ends in exactly one of those six outcomes or
\* of SnapshotFailed (a snapshot read failed, nothing was removed) and
\* ReadBackFailed (the filter was recreated and the restoration attempted, the
\* read of the new id failed); its steps follow the stated order: validation
\* before the snapshot, the snapshot before the remove, the remove before any
\* create, the rollback create only after a failed create with the new text,
\* the restoration only after a successful one.
C10_EightOutcomes ==
    \A i \in Single :
        LET c == ctl[i]
        IN  /\ c.op = "Update" => StepsInOrder(c)
            /\ UpdateDone(c) =>
                  /\ Count(StatedOutcomes(c) \o <<SnapshotFailed(c), ReadBackFailed(c)>>) = 1
                  /\ SnapshotFailed(c) => (Len(c.calls) \in {1, 2} /\ store = c.pre)
                  /\ Aborted(c) => (Len(c.calls) = 3 /\ store = c.pre)
                  /\ (RolledBackOK(c) \/ RolledBackFailed(c)) => Len(c.calls) = 5
                  /\ ReadBackFailed(c) =>
                        /\ RecreateOkIn(c)
                        /\ Len(c.calls) = 5 + Len(c.assignedUsers)
                        /\ ~c.stateSet

C10_Witness ==
    /\ UpdateDone(ctl[1])
    /\ ReadBackFailed(ctl[1])
    /\ Len(RestoreCalls(ctl[1])) = 2
    /\ TextOf(store, ctl[1].name) = ctl[1].newDefinition

(***************************************************************************)
(* Create                                                                  *)
(***************************************************************************)
CreateOf(c) == c.op = "Create" /\ c.pc # "idle"
CallsNamed(c, fn) == {j \in 1..Len(c.calls) : c.calls[j].fn = fn}
PassedChecks(c) == ~\E d \in Errors(c) : d.summary = "Invalid JSON Definition"
ExistenceAnswered(c) ==
    \E j \in CallsNamed(c, "count_filter") : c.calls[j].result.kind = "ok"

\* C11: a Create on a name the store already holds never calls the create
\* primitive and leaves the store as it was (the filter's text, its id and
\* the accounts bound to it); it ends with an error and no reported state, and
\* once the definition has passed the checks and the existence query has
\* answered, that error is "Filter Already Exists".
C11_CreateOnExistingNameFails ==
    \A i \in Single :
        LET c == ctl[i]
        IN  (CreateOf(c) /\ FilterExists(c.pre, c.name)) =>
               /\ CallsNamed(c, "set_filter") = {}
               /\ store = c.pre
               /\ ~c.stateSet
               /\ c.pc \in {"c_exists", "done"}
               /\ c.pc = "done" =>
                     /\ Cardinality(Errors(c)) = 1
                     /\ (PassedChecks(c) /\ ExistenceAnswered(c)) =>
                           \E d \in Errors(c) : d.summary = "Filter Already Exists"

C11_Witness ==
    \E i \in Single :
        LET c == ctl[i]
        IN  /\ CreateOf(c) /\ c.pc = "done"
            /\ FilterExists(c.pre, c.name)
            /\ AssignedTo(c.pre, c.name) # {}
            /\ \E d \in Errors(c) : d.summary = "Filter Already Exists"

CreateSucceeded(c) == CreateOf(c) /\ c.pc = "done" /\ c.stateSet /\ Errors(c) = {}

\* C12: when a Create succeeds the store holds exactly one record more than
\* before, under the name, with the canonical form of the text and a fresh
\* id; every other record and every assignment is as before; the reported
\* state has id = name, definition = the canonical text, and the filterID the
\* store holds for the name.
C12_CreateStoresCanonicalText ==
    \A i \in Single :
        LET c == ctl[i]
            canonical == normalizeJSON(c.definition)
        IN  CreateSucceeded(c) =>
               /\ canonical.ok
               /\ ~FilterExists(c.pre, c.name)
               /\ DOMAIN store.filters = DOMAIN c.pre.filters \cup {c.name}
               /\ \A n \in DOMAIN c.pre.filters : store.filters[n] = c.pre.filters[n]
               /\ store.users = c.pre.users
               /\ store.filters[c.name].text = canonical.text
               /\ \A n \in DOMAIN c.pre.filters :
                     store.filters[n].id # store.filters[c.name].id
               /\ c.state.id = c.name
               /\ c.state.name = c.name
               /\ c.state.definition = canonical.text
               /\ c.state.filterID = store.filters[c.name].id
               /\ CallsNamed(c, "set_filter") # {}

C12_Witness ==
    \E i \in Single :
        LET c == ctl[i]
        IN  /\ CreateSucceeded(c)
            /\ c.definition # c.state.definition
            /\ DOMAIN c.pre.filters # {}

(***************************************************************************)
(* normalizeJSON                                                           *)
(***************************************************************************)
Normalized == vres.phase = "normalized"

RECURSIVE NoDuplicateKeys(_)
NoDuplicateKeys(node) ==
    /\ node.tag = "obj" =>
          \A i, j \in 1..Len(node.m) : i # j => node.m[i][1] # node.m[j][1]
    /\ \A i \in 1..Len(node.m) : NoDuplicateKeys(node.m[i][2])

\* C13: normalizeJSON is idempotent: for every text that parses, normalizing
\* the normalized text succeeds and returns it unchanged; the same holds for
\* the text written with whitespace and its members in another order.
C13_NormalizeIdempotent ==
    (Normalized /\ vres.canon.ok) =>
        /\ vres.again.ok
        /\ vres.again.text = vres.canon.text
        /\ vres.respelled.ok
        /\ normalizeJSON(vres.respelled.text) = vres.respelled

C13_Witness ==
    /\ Normalized /\ vres.canon.ok
    /\ ~NoDuplicateKeys(vdoc.tree)
    /\ vres.canon.text # vdoc
    /\ vres.again.text = vres.canon.text

\* C14: for every text the validator accepts, normalizeJSON succeeds and the
\* validator accepts the normalized text.
C14_NormalizedStaysValid ==
    (Normalized /\ vres.errors = {}) =>
        /\ vres.canon.ok
        /\ vres.canonErrors = {}

C14_Witness ==
    /\ Normalized /\ vres.errors = {}
    /\ vres.canon.ok /\ vres.canon.text # vdoc
    /\ vres.canonErrors = {}
    /\ vres.wraps = MaxWraps

Validated == vres.phase = "validated"
Accepted == Validated /\ vres.verdict.code = "ok"
Root == Unmarshal(vdoc.tree)

\* C16: every definition the validator accepts has a root object with exactly
\* one key, filter, whose value is an object: a root holding filter and any
\* other key is rejected.
C16_RootHoldsOnlyFilter ==
    Accepted =>
        /\ WellFormed(vdoc.tree)
        /\ Root.tag = "obj"
        /\ DOMAIN Root.o = {"filter"}
        /\ Root.o["filter"].tag = "obj"

MissingFilterRoot == {"missing_filter", "filter_not_object"}
ConditionTreeErrors ==
    {"multiple_operators", "not_array", "empty_array", "element_not_object",
     "not_not_object", "field_not_object"}
Verdicts == IF vres.errors = {} THEN {OkVerdict} ELSE vres.errors

\* C17: the top-level failures have a fixed precedence: a text that is not
\* JSON gives MalformedJSON; else a root that is not an object gives
\* NotAnObject; else a root without a filter key, or with a filter that is not
\* an object, gives MissingFilterRoot; an error of the condition tree is
\* returned only when all three checks pass.
C17_TopLevelPrecedence ==
    Validated =>
        /\ vres.verdict \in Verdicts
        /\ \A e \in Verdicts :
              /\ ~WellFormed(vdoc.tree) => e.code = "malformed_json"
              /\ (WellFormed(vdoc.tree) /\ Root.tag # "obj") => e.code = "not_an_object"
              /\ (WellFormed(vdoc.tree) /\ Root.tag = "obj" /\ ~HasFilterRoot(vdoc)) =>
                    e.code \in MissingFilterRoot
              /\ HasFilterRoot(vdoc) => e.code \in ConditionTreeErrors \cup {"ok"}
              /\ e.code \in ConditionTreeErrors => HasFilterRoot(vdoc)

C17_Witness ==
    /\ Validated
    /\ WellFormed(vdoc.tree) /\ Root.tag = "obj"
    /\ "filter" \in DOMAIN Root.o /\ Root.o["filter"].tag # "obj"
    /\ validateConditionTree(Root, <<"$">>) # {}
    /\ vres.verdict.code = "filter_not_object"

OperatorsOf(o) == {k \in DOMAIN o : k \in {"and", "or", "not", "field"}}
OneOperator(o) == Cardinality(OperatorsOf(o)) = 1
OperatorOf(o) == CHOOSE k \in OperatorsOf(o) : TRUE
Valid(value) == validateConditionTree(value, <<"$">>) = {}

\* the shape the claim states for an object with exactly one operator key
StatedShape(o) ==
    LET operator == OperatorOf(o)
        v == o[operator]
    IN  CASE operator \in {"and", "or"} ->
                /\ v.tag = "arr"
                /\ Len(v.a) >= 1
                /\ \A j \in 1..Len(v.a) : v.a[j].tag = "obj" /\ Valid(v.a[j])
          [] operator = "not" -> v.tag = "obj" /\ Valid(v)
          [] OTHER -> v.tag = "obj"

\* the root holds no operator key, so the walk reaches the filter object
FilterObjectWalked ==
    HasFilterRoot(vdoc) /\ OperatorsOf(Root.o) = {}

\* C18: at an object with exactly one operator key the validator accepts only
\* the stated shape: and/or a non-empty array of objects that are each valid,
\* not a valid object, field an object; any other shape is rejected.  Checked
\* of validateConditionObject at every object of the text, and of the whole
\* validator when the object is the filter object of a root without operator
\* keys.
C18_OneOperatorShape ==
    Validated =>
        /\ WellFormed(vdoc.tree) =>
              \A o \in ObjectsIn(Root) :
                 OneOperator(o) =>
                    ((validateConditionObject(o, <<"$">>) = {}) <=> StatedShape(o))
        /\ (FilterObjectWalked /\ OneOperator(Root.o["filter"].o)) =>
              /\ vres.verdict.code = "ok" => StatedShape(Root.o["filter"].o)
              /\ (DOMAIN Root.o = {"filter"} /\ StatedShape(Root.o["filter"].o)) =>
                    vres.verdict.code = "ok"

C18_Witness ==
    /\ Validated
    /\ FilterObjectWalked
    /\ OperatorsOf(Root.o["filter"].o) = {"and"}
    /\ ~StatedShape(Root.o["filter"].o)
    /\ vres.verdict.code = "element_not_object"

IndexOf(token) == CHOOSE j \in 1..Len(IndexTokens) : IndexTokens[j] = token
IsIndex(token) == \E j \in 1..Len(IndexTokens) : IndexTokens[j] = token

\* the value a path leads to from value, read as the path is written: a
\* bracket token is an array index (from zero), any other token a member name
RECURSIVE PathResolves(_, _, _)
PathResolves(value, path, i) ==
    IF i > Len(path) THEN TRUE
    ELSE IF IsIndex(path[i])
    THEN /\ value.tag = "arr"
         /\ IndexOf(path[i]) <= Len(value.a)
         /\ PathResolves(value.a[IndexOf(path[i])], path, i + 1)
    ELSE /\ value.tag = "obj"
         /\ path[i] \in DOMAIN value.o
         /\ PathResolves(value.o[path[i]], path, i + 1)

RECURSIVE ValueAt(_, _, _)
ValueAt(value, path, i) ==
    IF i > Len(path) THEN value
    ELSE IF IsIndex(path[i])
    THEN ValueAt(value.a[IndexOf(path[i])], path, i + 1)
    ELSE ValueAt(value.o[path[i]], path, i + 1)

\* C19: a MultipleLogicalOperators rejection names the path from the root
\* ("$", a dot member per object step, a bracket index per array step) to an
\* object of the definition, and names every operator key present at that
\* object, each once, at least two.
C19_MultipleOperatorsNamesKeysAndPath ==
    Validated =>
        \A e \in Verdicts \cup {vres.verdict} :
           e.code = "multiple_operators" =>
              /\ Len(e.path) >= 1 /\ e.path[1] = "$"
              /\ PathResolves(Root, e.path, 2)
              /\ ValueAt(Root, e.path, 2).tag = "obj"
              /\ {e.present[j] : j \in 1..Len(e.present)}
                    = OperatorsOf(ValueAt(Root, e.path, 2).o)
              /\ Len(e.present) = Cardinality(OperatorsOf(ValueAt(Root, e.path, 2).o))
              /\ Len(e.present) >= 2

C19_Witness ==
    /\ Validated
    /\ vres.verdict.code = "multiple_operators"
    /\ Len(vres.verdict.path) = MaxWraps + 1
    /\ \E j \in 1..Len(vres.verdict.path) : IsIndex(vres.verdict.path[j])
    /\ \E j \in 1..Len(vres.verdict.path) : vres.verdict.path[j] = "not"

\* C20: the validator is deterministic: every run on the same text returns
\* the same verdict, ok or the same error with the same path and keys,
\* whatever order the members of an object are visited in.
C20_ValidateDeterministic ==
    Validated => \A e \in Verdicts : e = vres.verdict

(***************************************************************************)
(* Delete, ImportState, Read                                               *)
(***************************************************************************)
OpOf(c, op) == c.op = op /\ c.pc # "idle"
Succeeded(c) == c.pc = "done" /\ Errors(c) = {}
MutatingCalls(c) ==
    {j \in 1..Len(c.calls) : c.calls[j].fn \in {"set_filter", "remove_filter", "set_user"}}
Answered(c, fn) == \E j \in CallsNamed(c, fn) : c.calls[j].result # TransportError

\* C21: a Delete issues exactly one remove-filter call and no other call, so
\* no assignment call and no restoration; after it succeeds the store holds
\* neither the filter nor any assignment bound to it and everything else is
\* as before; after it fails the store is as before.
C21_DeleteRemovesOnce ==
    \A i \in Single :
        LET c == ctl[i]
        IN  OpOf(c, "Delete") =>
               /\ \A j \in 1..Len(c.calls) : c.calls[j].fn = "remove_filter"
               /\ Len(c.calls) = (IF c.pc = "done" THEN 1 ELSE 0)
               /\ ~c.stateSet
               /\ Succeeded(c) =>
                     /\ ~FilterExists(store, c.name)
                     /\ AssignedTo(store, c.name) = {}
                     /\ store = RemoveFilter(c.pre, c.name)
               /\ (c.pc = "done" /\ ~Succeeded(c)) => store = c.pre
               /\ c.pc # "done" => store = c.pre

C21_Witness ==
    \E i \in Single :
        LET c == ctl[i]
        IN  /\ OpOf(c, "Delete") /\ Succeeded(c)
            /\ AssignedTo(c.pre, c.name) # {}
            /\ DOMAIN store.users # {}

\* C22: an ImportState issues no mutating store call and leaves the store as
\* it is.  When the store holds no filter under the name it sets no state and
\* fails, with "Filter Not Found" once the query has answered; when the
\* store holds one and the query answers, it reports id = name, the
\* canonical form of the stored text and the stored filterID.
C22_ImportReportsStoreOrNotFound ==
    \A i \in Single :
        LET c == ctl[i]
        IN  OpOf(c, "Import") =>
               /\ MutatingCalls(c) = {}
               /\ store = c.pre
               /\ c.pc = "done" =>
                     /\ Len(c.calls) = 1
                     /\ ~FilterExists(store, c.name) =>
                           /\ ~c.stateSet
                           /\ Errors(c) # {}
                           /\ Answered(c, "select_filter") =>
                                 \A d \in Errors(c) : d.summary = "Filter Not Found"
                     /\ (FilterExists(store, c.name) /\ Answered(c, "select_filter")) =>
                           /\ Errors(c) = {}
                           /\ c.stateSet
                           /\ c.state.id = c.name
                           /\ c.state.name = c.name
                           /\ c.state.definition = normalizeJSON(store.filters[c.name].text).text
                           /\ c.state.filterID = store.filters[c.name].id
                     /\ ~Answered(c, "select_filter") => (~c.stateSet /\ Errors(c) # {})

C22_Witness ==
    \E i \in Single :
        LET c == ctl[i]
        IN  /\ OpOf(c, "Import") /\ Succeeded(c)
            /\ c.stateSet
            /\ c.state.definition # store.filters[c.name].text
            /\ c.state.filterID > 2

\* C23: a Read issues no mutating store call and leaves the store as it is.
\* Once the query has answered, the reported state reflects the store
\* whatever state was reported before: no state when the filter is absent,
\* and otherwise the canonical form of the text stored now and the id stored
\* now.  When the query fails the Read fails and the prior state stands.
C23_ReadReflectsStore ==
    \A i \in Single :
        LET c == ctl[i]
        IN  OpOf(c, "Read") =>
               /\ MutatingCalls(c) = {}
               /\ store = c.pre
               /\ c.pc = "done" =>
                     /\ Len(c.calls) = 1
                     /\ (~FilterExists(store, c.name) /\ Answered(c, "select_filter")) =>
                           (~c.stateSet /\ c.state = NoState /\ Errors(c) = {})
                     /\ (FilterExists(store, c.name) /\ Answered(c, "select_filter")) =>
                           /\ Errors(c) = {}
                           /\ c.stateSet
                           /\ c.state.id = c.name
                           /\ c.state.definition = normalizeJSON(store.filters[c.name].text).text
                           /\ c.state.filterID = store.filters[c.name].id
                     /\ ~Answered(c, "select_filter") =>
                           (Errors(c) # {} /\ c.stateSet /\ c.state \in PriorStates(c.name))

C23_Witness ==
    \E i \in Single :
        LET c == ctl[i]
        IN  /\ OpOf(c, "Read") /\ Succeeded(c)
            /\ c.stateSet
            /\ c.state.definition = normalizeJSON(store.filters[c.name].text).text
            /\ \A prior \in PriorStates(c.name) :
                  prior.definition # c.state.definition /\ prior.filterID # c.state.filterID

(***************************************************************************)
(* Assignments                                                             *)
(***************************************************************************)
AllAnswered(c) == \A j \in 1..Len(c.calls) : c.calls[j].result # TransportError
ErrorTitles(c) == {d.summary : d \in Errors(c)}

\* C24: under one controller running filter and assignment Create, Update
\* and Delete in any sequence, every assignment in the store refers to a
\* filter the store holds; an assignment Create or Update naming a filter the
\* store does not hold never calls the set-assignment primitive and fails,
\* with "Filter Not Found" once the existence query has answered.
C24_AssignmentsReferToFilters ==
    /\ StoreOk(store)
    /\ \A i \in Single :
          LET c == ctl[i]
          IN  ((OpOf(c, "AssignCreate") \/ OpOf(c, "AssignUpdate"))
                 /\ ~FilterExists(c.pre, c.name)) =>
                 /\ CallsNamed(c, "set_user") = {}
                 /\ store = c.pre
                 /\ ~c.stateSet
                 /\ c.pc = "done" =>
                       /\ Errors(c) # {}
                       /\ AllAnswered(c) => ErrorTitles(c) = {"Filter Not Found"}

C24_Witness ==
    \E i \in Single :
        LET c == ctl[i]
        IN  /\ OpOf(c, "AssignUpdate") /\ c.pc = "done"
            /\ ~FilterExists(c.pre, c.name)
            /\ ErrorTitles(c) = {"Filter Not Found"}
            /\ DOMAIN store.users # {}
            /\ store.nextId > 3

\* C25: an assignment Create whose (username, userhost) key, the host
\* defaulted to "%", already has an assignment in the store never calls the
\* set-assignment primitive, so the store and the existing binding stay as
\* they are; it fails, with "Assignment Already Exists" once the filter is
\* found and both queries have answered.  The default username "%" included.
C25_AssignmentNotOverwritten ==
    \A i \in Single :
        LET c == ctl[i]
        IN  (OpOf(c, "AssignCreate") /\ <<c.username, c.userhost>> \in DOMAIN c.pre.users) =>
               /\ CallsNamed(c, "set_user") = {}
               /\ store = c.pre
               /\ ~c.stateSet
               /\ c.pc = "done" =>
                     /\ Errors(c) # {}
                     /\ (FilterExists(c.pre, c.name) /\ AllAnswered(c)) =>
                           ErrorTitles(c) = {"Assignment Already Exists"}

C25_Witness ==
    \E i \in Single :
        LET c == ctl[i]
        IN  /\ OpOf(c, "AssignCreate") /\ c.pc = "done"
            /\ c.username = Percent
            /\ ErrorTitles(c) = {"Assignment Already Exists"}
            /\ store.users[<<Percent, Percent>>] # c.name

FilterMutation(c) == c.op \in {"Create", "Update", "Delete"} /\ c.pc = "done"
FailedCalls(c) == {j \in 1..Len(c.calls) : c.calls[j].result.kind # "ok"}
Surfaced(c, j) == \E k \in 1..Len(c.diags) : c.diags[k].cause = c.calls[j].result.msg

\* C26: when filter Create, Update or Delete has returned, every store call
\* of the invocation that failed (driver error, or a result other than "OK")
\* has its error text or result string in a diagnostic, the rollback create
\* call of Update included.
C26_FailedCallTextSurfaced ==
    \A i \in Single :
        LET c == ctl[i]
        IN  FilterMutation(c) => \A j \in FailedCalls(c) : Surfaced(c, j)

TimesCalled(c, fn) == Cardinality(CallsNamed(c, fn))
TimesSent(c, text) ==
    Cardinality({j \in CallsNamed(c, "set_filter") : c.calls[j].text = text})

Other(i) == CHOOSE j \in Controllers : j # i

\* the step a Create takes once it is past its existence check
CreateStepAfterCheck(i) ==
    (ctl[i].op = "Create" /\ ctl[i].pc = "c_create" /\ ctl'[i] # ctl[i]) =>
        LET c == ctl'[i]
        IN  /\ Len(c.calls) = 2
            /\ c.calls[2].fn = "set_filter"
            /\ c.calls[2].name = ctl[i].name
            /\ c.calls[2].text = ctl[i].newDefinition
            /\ "Filter Already Exists" \notin ErrorTitles(c)
            /\ c.calls[2].result = Ok =>
                  /\ Errors(c) = {}
                  /\ FilterExists(store', c.name)
                  /\ store'.filters[c.name].text = c.newDefinition
                  /\ store'.filters[c.name].id = store.nextId

\* C28: nothing excludes two instances running Create for one name.  A
\* Create that is past its existence check does not look at the name again:
\* its next step issues the create primitive for its name and text whatever
\* the other instance has stored meanwhile, it never fails with "Filter
\* Already Exists", and a create answered OK puts its text in the store under
\* a new id.  (The witness is the interleaving: both passed the check before
\* either created, both created, both report success.)
C28_CreateNotExcluded == [][\A i \in Controllers : CreateStepAfterCheck(i)]_vars

C28_Witness ==
    /\ \A i \in Controllers :
          LET c == ctl[i]
          IN  /\ OpOf(c, "Create") /\ c.name = ContendedName /\ Succeeded(c)
              /\ ~FilterExists(c.pre, c.name)
              /\ c.calls[1].fn = "count_filter" /\ c.calls[1].result = Ok
              /\ c.calls[2].fn = "set_filter" /\ c.calls[2].result = Ok
              /\ c.stateSet
    /\ ctl[1].newDefinition # ctl[2].newDefinition
    /\ store.nextId = 5
    /\ \E i \in Controllers : ctl[i].state.definition # store.filters[ContendedName].text

Snapshot(c) == {c.assignedUsers[j] : j \in 1..Len(c.assignedUsers)}
RemovedBy(c) == c.op = "Update" /\ \E j \in CallsNamed(c, "remove_filter") : c.calls[j].result = Ok

\* the accounts bound to the filter when the remove call took it away that
\* the list of assignments, read earlier, did not hold
BoundInWindow(c) == AssignedTo(c.atRemove, c.name) \ Snapshot(c)

\* C29: an account another instance binds to the filter after Update listed
\* the filter's assignments and before Update removed the filter goes with
\* the filter and is not restored: Update issues no set-assignment call for
\* it, no warning names it, and from the remove on, so also when Update
\* returns, the store holds no assignment for it.
C29_WindowAssignmentLost ==
    \A i \in Controllers :
        LET c == ctl[i]
        IN  RemovedBy(c) =>
               \A k \in BoundInWindow(c) :
                  /\ \A j \in CallsNamed(c, "set_user") : c.calls[j].user # UserSpecOf(k)
                  /\ \A d \in Warnings(c) : d.subject # UserSpecOf(k)
                  /\ k \notin DOMAIN store.users

C29_Witness ==
    \E i \in Controllers :
        LET c == ctl[i]
            w == ctl[Other(i)]
        IN  /\ RemovedBy(c) /\ Succeeded(c) /\ c.stateSet
            /\ Snapshot(c) # {}
            /\ AssignedTo(store, c.name) = Snapshot(c)
            /\ BoundInWindow(c) = {<<Percent, Percent>>}
            /\ OpOf(w, "AssignCreate") /\ Succeeded(w) /\ w.stateSet
            /\ w.username = Percent
            /\ RestoreFailureWarnings(c) = {}

\* the rollback step of an Update
RollbackStep(i) ==
    (ctl[i].op = "Update" /\ ctl[i].pc = "u_rollback" /\ ctl'[i] # ctl[i]) =>
        LET c == ctl'[i]
            rb == c.calls[Len(c.calls)]
        IN  /\ c.pc = "done"
            /\ c.oldDefinition = ctl[i].oldDefinition
            /\ rb.fn = "set_filter" /\ rb.name = c.name
            /\ rb.text = c.oldDefinition
            /\ rb.result = Ok =>
                  /\ FilterExists(store', c.name)
                  /\ store'.filters[c.name].text = c.oldDefinition
                  /\ store'.filters[c.name].id = store.nextId

\* C30: nothing excludes two Updates of one name.  The rollback of an Update
\* sends the text the Update read at its start, whatever filter its remove
\* call took away and whatever the other instance has stored and reported
\* since: answered OK, it leaves that older text in the store under a new id.
\* (The witness is the destructive interleaving: both Updates have returned,
\* one reported success for its new text T1, the other had read T0 before,
\* removed the T1 filter, failed to create and rolled back, and the store
\* holds T0.)
C30_RollbackWritesSnapshotText == [][\A i \in Controllers : RollbackStep(i)]_vars

C30_Witness ==
    \E i \in Controllers :
        LET a == ctl[i]
            b == ctl[Other(i)]
        IN  /\ UpdateDone(a) /\ Succeeded(a) /\ a.stateSet
            /\ a.state.definition = a.newDefinition
            /\ UpdateDone(b) /\ RemovedBy(b)
            /\ b.oldDefinition = a.oldDefinition
            /\ FilterExists(b.atRemove, b.name)
            /\ b.atRemove.filters[b.name].text = a.newDefinition
            /\ Len(b.calls) = 5 /\ b.calls[4].result # Ok /\ b.calls[5].result = Ok
            /\ \E d \in Errors(b) : d.note = "original_restored"
            /\ FilterExists(store, a.name)
            /\ store.filters[a.name].text = b.oldDefinition
            /\ store.filters[a.name].text # a.newDefinition
            /\ store.filters[a.name].id # a.state.filterID

(***************************************************************************)
(* The assignment resource: ids and keys                                   *)
(***************************************************************************)
Reported(c) == c.op \in AssignmentOps /\ c.pc = "done" /\ c.stateSet /\ Errors(c) = {}
IDForm(a) == a.username \o <<"@">> \o a.userhost

\* C31: the id an assignment Create, Read or Import reports is
\* username@userhost, the userhost never empty, and a Read reports the id the
\* operation before it reported for the same row.
C31_AssignmentIDForm ==
    \A i \in Single :
        LET c == ctl[i]
        IN  Reported(c) =>
               /\ c.assignment.userhost # << >>
               /\ c.assignment.id = IDForm(c.assignment)
               /\ c.op = "AssignRead" => c.assignment.id = c.prior.id

\* the row the SELECT of Read asks for, and the row the set_user call of
\* Update and the remove_user call of Delete address, from a state
ReadKey(a) == <<a.username, DefaultHost(a.userhost)>>
MutationKey(a) == StoreAccount(buildUserSpec(a.username, DefaultHost(a.userhost)))
\* the row ImportState asks for, from an import id
ImportKey(id) == parseUserSpec(id)

ImportAgreesWithState(c) ==
    (c.op = "AssignImport" /\ Reported(c)) =>
        /\ c.calls[1].user = ImportKey(c.reqID)
        /\ ReadKey(c.assignment) = ImportKey(c.reqID)
        /\ MutationKey(c.assignment) = ImportKey(c.reqID)

ImportFindsCreated(c) ==
    (c.op = "AssignCreate" /\ Reported(c)) =>
        /\ StoreAccount(buildUserSpec(c.username, c.userhost)) \in DOMAIN store.users
        /\ ImportKey(buildUserSpec(c.username, c.userhost))
              = StoreAccount(buildUserSpec(c.username, c.userhost))

\* C39: the row an import asks for is the row Read, Update and Delete address
\* from the state that import produced; and for an assignment Create made,
\* the import of buildUserSpec(username, userhost) asks for the row Create
\* wrote, the default account "%" included.
C39_ImportAddressesSameRow ==
    \A i \in Single : ImportAgreesWithState(ctl[i]) /\ ImportFindsCreated(ctl[i])

(***************************************************************************)
(* The provider                                                            *)
(***************************************************************************)
StageOrder == <<"open", "ping", "component">>
StageSucceeded(st) == ~st.err /\ (st.stage = "component" => st.count > 0)
StageTitle(name) ==
    CASE name = "open" -> "Unable to Create MySQL Client"
      [] name = "ping" -> "Unable to Connect to MySQL"
      [] OTHER -> "Audit Log Filter Component Not Available"

\* C32: connectAndVerify runs opening, pinging and the component check in
\* that order, each only after the one before it succeeded.  It returns a
\* handle only when all three succeeded, the handle open and no diagnostic
\* added; when a stage fails it returns no handle, has added exactly one
\* error, the one naming that stage, has run no later stage, and has closed
\* the handle if the opening had given one.
C32_ConnectAndVerifyStages ==
    LET st == prov.stages
    IN  /\ Len(st) <= Len(StageOrder)
        /\ \A k \in 1..Len(st) : st[k].stage = StageOrder[k]
        /\ \A k \in 2..Len(st) : StageSucceeded(st[k - 1])
        /\ prov.ok =>
              /\ Len(st) = Len(StageOrder)
              /\ \A k \in 1..Len(st) : StageSucceeded(st[k])
              /\ prov.db = "open"
              /\ prov.diags = << >>
        /\ (prov.pc = "done" /\ st # << >> /\ ~prov.ok) =>
              LET failed == st[Len(st)]
              IN  /\ ~StageSucceeded(failed)
                  /\ Len(prov.diags) = 1
                  /\ prov.diags[1].summary = StageTitle(failed.stage)
                  /\ prov.db = IF failed.stage = "open" THEN "none" ELSE "closed"
        /\ (prov.pc = "done" /\ st # << >>) =>
              (prov.ok \/ ~StageSucceeded(st[Len(st)]))

C32_Witness ==
    /\ prov.pc = "done"
    /\ ~prov.ok
    /\ Len(prov.stages) = 3
    /\ prov.stages[3] = Stage("component", FALSE, 0)
    /\ prov.db = "closed"
    /\ Len(prov.diags) = 1

\* what the stated precedence selects for the k-th timeout, and whether it is
\* an integer of at least 1
AttrSet(k) == ~prov.attr[k].null
EnvSet(k) == prov.env[k] # << >>
DefaultOf(k) == TimeoutInput(TimeoutNames[k], << >>, Int64Null).defaultValue
SelectedValue(k) ==
    IF AttrSet(k) THEN prov.attr[k].value
    ELSE IF EnvSet(k) THEN ParseInt(prov.env[k]).value
    ELSE DefaultOf(k)
SelectedValid(k) ==
    IF AttrSet(k) THEN prov.attr[k].value >= 1
    ELSE IF EnvSet(k) THEN ParseInt(prov.env[k]).ok /\ ParseInt(prov.env[k]).value >= 1
    ELSE TRUE
TimeoutParsed(k) == k \in 1..Len(prov.resolved)
ResolutionFailed(k) == TimeoutParsed(k) /\ prov.resolved[k] = 0

\* C33: each session timeout resolves to the configuration attribute when it
\* is set, else to the environment value when that is not empty, else to the
\* default; the resolution fails, with exactly one diagnostic, exactly when
\* the value so selected is not an integer of at least 1.
C33_TimeoutPrecedence ==
    \A k \in 1..Len(TimeoutNames) :
        TimeoutParsed(k) =>
           /\ ResolutionFailed(k) <=> ~SelectedValid(k)
           /\ ~ResolutionFailed(k) => prov.resolved[k] = SelectedValue(k)
           /\ ResolutionFailed(k) => Len(prov.diags) = 1

(***************************************************************************)
(* The validator's walk                                                    *)
(***************************************************************************)
\* the value of the one operator key of o has the operator's own shape
OperatorShape(o) ==
    LET operator == OperatorOf(o)
        v == o[operator]
    IN  CASE operator \in {"and", "or"} ->
                /\ v.tag = "arr"
                /\ Len(v.a) >= 1
                /\ \A j \in 1..Len(v.a) : v.a[j].tag = "obj"
          [] OTHER -> v.tag = "obj"

Violates(o) == Ambiguous(o) \/ (OneOperator(o) /\ ~OperatorShape(o))

\* C34: the walk covers the whole document: a definition with a filter
\* object at its root in which some object, at any depth and position, holds
\* several operator keys or an operator whose value has not the operator's
\* shape, is rejected.
C34_WalkCoversDocument ==
    (Validated /\ HasFilterRoot(vdoc) /\ \E o \in ObjectsIn(Root) : Violates(o))
        => vres.verdict.code # "ok"

(***************************************************************************)
(* Create's errors and the store                                           *)
(***************************************************************************)
CreateErred(c) == CreateOf(c) /\ c.pc = "done" /\ Errors(c) # {}

\* C35: when a Create has returned with an error the store holds the same
\* filters as before the call: no record made by this call remains under
\* the name.
C35_FailedCreateLeavesNoFilter ==
    \A i \in Single :
        CreateErred(ctl[i]) => store.filters = ctl[i].pre.filters

(***************************************************************************)
(* Update's report and the store                                           *)
(***************************************************************************)
HoldsNewText(s, c) == FilterExists(s, c.name) /\ TextOf(s, c.name) = c.newDefinition

\* C36: Update's report agrees with the store.  An Update that has returned
\* with a hard error leaves a store that does not hold the filter with the
\* new text; an Update that has returned without one leaves a store that
\* holds the filter with the canonical new text, and the filterID it
\* reports is the id of that record.
C36_UpdateReportAgreesWithStore ==
    \A i \in Single :
        LET c == ctl[i]
        IN  UpdateDone(c) =>
               /\ Errors(c) # {} => ~HoldsNewText(store, c)
               /\ Errors(c) = {} =>
                     /\ HoldsNewText(store, c)
                     /\ c.stateSet
                     /\ c.state.filterID = store.filters[c.name].id

(***************************************************************************)
(* Update: the remove comes after the snapshot                             *)
(***************************************************************************)
CallOk(c, j, fn) == c.calls[j].fn = fn /\ c.calls[j].result.kind = "ok"
RemoveFailedIn(c) ==
    \E j \in CallsNamed(c, "remove_filter") : c.calls[j].result.kind # "ok"
NothingRebuilt(c) ==
    CallsNamed(c, "set_filter") = {} /\ CallsNamed(c, "set_user") = {}

\* C37: Update sends the remove only after both snapshot reads (the stored
\* text, the list of accounts) have succeeded.  An Update whose snapshot read
\* failed, the filter being gone included, has sent no remove and has left
\* the store as it was; an Update whose remove failed or answered other than
\* "OK" likewise; both return an error without a create or set-assignment
\* call.
C37_RemoveOnlyAfterSnapshot ==
    \A i \in Single :
        LET c == ctl[i]
        IN  c.op = "Update" =>
               /\ \A j \in CallsNamed(c, "remove_filter") :
                     /\ j = 3
                     /\ CallOk(c, 1, "select_filter")
                     /\ CallOk(c, 2, "select_users")
               /\ (UpdateDone(c) /\ SnapshotFailed(c)) =>
                     /\ CallsNamed(c, "remove_filter") = {}
                     /\ NothingRebuilt(c)
                     /\ store = c.pre
               /\ RemoveFailedIn(c) =>
                     /\ UpdateDone(c)
                     /\ Errors(c) # {}
                     /\ NothingRebuilt(c)
                     /\ store = c.pre

C37_Witness ==
    \E i \in Single :
        LET c == ctl[i]
        IN  /\ UpdateDone(c)
            /\ AssignedTo(c.pre, c.name) # {}
            /\ Len(c.calls) = 3
            /\ CallOk(c, 1, "select_filter")
            /\ CallOk(c, 2, "select_users")
            /\ c.calls[3].fn = "remove_filter"
            /\ c.calls[3].result.kind = "res"
            /\ \E d \in Errors(c) : d.summary = "Filter Removal Failed"

(***************************************************************************)
(* What a filter operation leaves alone                                    *)
(***************************************************************************)
FilterOps == {"Create", "Update", "Delete"}
OtherFilters(s, name) == DOMAIN s.filters \ {name}
BoundElsewhere(s, name) == {k \in DOMAIN s.users : s.users[k] # name}

\* every filter of another name with its text and id, and every account
\* bound to another filter with its binding, is in t what it is in s
SameElsewhere(s, t, name) ==
    /\ OtherFilters(s, name) = OtherFilters(t, name)
    /\ \A m \in OtherFilters(s, name) : s.filters[m] = t.filters[m]
    /\ BoundElsewhere(s, name) = BoundElsewhere(t, name)
    /\ \A k \in BoundElsewhere(s, name) : s.users[k] = t.users[k]

\* C38: a Create, Update or Delete on a name changes nothing else in the
\* store: at every step of the operation each filter of another name has the
\* text and id it had when the operation began, and each account bound to
\* another filter has its binding; the state an Update reports carries the
\* name it was called with.
C38_FilterOpsFrame ==
    \A i \in Single :
        LET c == ctl[i]
        IN  (c.op \in FilterOps /\ c.pc # "idle") =>
               /\ SameElsewhere(c.pre, store, c.name)
               /\ (UpdateDone(c) /\ c.stateSet) =>
                     /\ c.state.name = c.name
                     /\ c.state.id = c.name

C38_Witness ==
    \E i \in Single :
        LET c == ctl[i]
        IN  /\ UpdateDone(c) /\ c.stateSet /\ Errors(c) = {}
            /\ FilterExists(store, c.name)
            /\ store.filters[c.name] # c.pre.filters[c.name]
            /\ AssignedTo(store, c.name) # {}
            /\ OtherFilters(store, c.name) # {}
            /\ BoundElsewhere(store, c.name) # {}
====
